---- MODULE Spec2Model ----
(***************************************************************************)
(* RIASEC scoring (backend/services/riasecScoring.js) and report           *)
(* composition (backend/services/riasecReportGenerator.js) as state        *)
(* machines over the question store, the answers of a test attempt and     *)
(* the cached report of the attempt.                                       *)
(*                                                                         *)
(* Conventions                                                             *)
(*  - A JavaScript string is a sequence of one-character strings, so that  *)
(*    trim() and toUpperCase() are computed and not assumed.  The value    *)
(*    null of a text column is the one-element sequence NULL, whose        *)
(*    element is not a character.                                          *)
(*  - A score is an integer number of hundredths of a percent point        *)
(*    (2500 is 25.00), the unit in which the code rounds.                  *)
(*  - A value that can be null or missing and is no text is a sequence of  *)
(*    length 0 (null) or 1 (the value).                                    *)
(*  - Every caller (a request, a script run) is a process p with its own   *)
(*    locals, proc[p] in calculateRIASECScores and gen[p] in               *)
(*    generateRIASECReport; the store and the cache are shared.            *)
(***************************************************************************)
EXTENDS Integers, Sequences, FiniteSets, TLC

VARIABLES
    catalog,     \* order_index of the rows of the sections table
    questions,   \* questions table: id -> [section, question_type, category]
    answers,     \* answers table: test_attempt_id -> (question id -> answer_text)
    proc,        \* locals of calculateRIASECScores, per process
    callsLeft,   \* per process, how many more calls it makes
    returned,    \* per process, what each finished call returned, oldest first
    updates,     \* the Question.update calls of calculateRIASECScores the
                 \* store received, oldest first
    apiKey,      \* config.gemini.apiKey
    interpretedResults,  \* test_attempt_id -> the row (empty: none) with its
                         \* riasec_report (empty: null, or the envelope)
    gen,         \* locals of generateRIASECReport, per process
    cacheWrites, \* the envelopes InterpretedResult.update stored, oldest first
    requests,    \* locals of a result route, per process
    script       \* locals of the script assignRIASECCategories

vars == <<catalog, questions, answers, proc, callsLeft, returned, updates,
          apiKey, interpretedResults, gen, cacheWrites, requests, script>>

scoringVars == <<catalog, questions, answers, proc, returned, updates>>
reportVars == <<apiKey, interpretedResults, gen, cacheWrites>>
callerVars == <<requests, script>>

(***************************************************************************)
(* Bounds                                                                  *)
(***************************************************************************)
MaxProcs == 2
MaxAttempts == 1
MaxQuestions == 2
MaxValueQuestions == 3
MaxRuns == 2
MaxRequests == 2

Procs == 1..MaxProcs
Attempts == 1..MaxAttempts

(***************************************************************************)
(* Strings                                                                 *)
(***************************************************************************)
NULL == <<"NULL">>

LowerChars == <<"a", "b", "c", "d", "e", "i", "r", "s", "x", "z">>
UpperChars == <<"A", "B", "C", "D", "E", "I", "R", "S", "X", "Z">>
Digits == <<"0", "1", "2", "3", "4", "5", "6", "7", "8", "9">>

IsSpace(c) == c = " "

UpperChar(c) ==
    IF \E i \in DOMAIN LowerChars : LowerChars[i] = c
    THEN UpperChars[CHOOSE i \in DOMAIN LowerChars : LowerChars[i] = c]
    ELSE c

toUpperCase(s) == [i \in DOMAIN s |-> UpperChar(s[i])]

RECURSIVE trimStart(_)
trimStart(s) ==
    IF s # <<>> /\ IsSpace(Head(s)) THEN trimStart(Tail(s)) ELSE s

RECURSIVE trimEnd(_)
trimEnd(s) ==
    IF s # <<>> /\ IsSpace(s[Len(s)]) THEN trimEnd(SubSeq(s, 1, Len(s) - 1)) ELSE s

trim(s) == trimEnd(trimStart(s))

\* JavaScript truthiness of a nullable string: null and "" are falsy.
Truthy(s) == s # NULL /\ s # <<>>

DigitValue(c) == (CHOOSE i \in DOMAIN Digits : Digits[i] = c) - 1
IsDigit(c) == \E i \in DOMAIN Digits : Digits[i] = c

RECURSIVE leadingDigits(_)
leadingDigits(s) ==
    IF s # <<>> /\ IsDigit(Head(s)) THEN <<Head(s)>> \o leadingDigits(Tail(s)) ELSE <<>>

RECURSIVE digitsValue(_)
digitsValue(ds) ==
    IF ds = <<>> THEN 0
    ELSE 10 * digitsValue(SubSeq(ds, 1, Len(ds) - 1)) + DigitValue(ds[Len(ds)])

startsWith(s, prefix) ==
    Len(s) >= Len(prefix) /\ SubSeq(s, 1, Len(prefix)) = prefix

InfinityWord == <<"I", "n", "f", "i", "n", "i", "t", "y">>

\* parseFloat on texts without a fraction or an exponent: leading white space
\* is skipped, one sign is read, then the word Infinity or the longest run of
\* digits; what follows is ignored; neither of them is NaN.  A number is its
\* finite value, or infinite with value 0.
parseFloat(text) ==
    LET s == trimStart(text)
        signed == s # <<>> /\ Head(s) \in {"-", "+"}
        negative == signed /\ Head(s) = "-"
        unsigned == IF signed THEN Tail(s) ELSE s
        ds == leadingDigits(unsigned)
    IN  IF startsWith(unsigned, InfinityWord)
        THEN [nan |-> FALSE, value |-> 0,
              infinite |-> IF negative THEN "-Infinity" ELSE "+Infinity"]
        ELSE IF ds = <<>> THEN [nan |-> TRUE, value |-> 0, infinite |-> "none"]
        ELSE [nan |-> FALSE,
              value |-> IF negative THEN 0 - digitsValue(ds) ELSE digitsValue(ds),
              infinite |-> "none"]

(***************************************************************************)
(* calculateRIASECScores: constants of the function                        *)
(***************************************************************************)
RiasecOrders == {5, 6, 7, 8, 9, 10}
riasecCodes == <<"R", "I", "A", "S", "E", "C">>
Codes == {riasecCodes[i] : i \in DOMAIN riasecCodes}

orderToRIASEC(order) ==
    CASE order = 5 -> "R"
      [] order = 6 -> "I"
      [] order = 7 -> "A"
      [] order = 8 -> "S"
      [] order = 9 -> "E"
      [] order = 10 -> "C"
      [] OTHER -> "undefined"

\* question.category ? question.category.trim().toUpperCase() : null
currentCategory(category) ==
    IF Truthy(category) THEN toUpperCase(trim(category)) ELSE NULL

\* !(!c || !['R','I','A','S','E','C'].includes(c))
hasRiasecCategory(category) ==
    LET c == currentCategory(category)
    IN  Truthy(c) /\ Len(c) = 1 /\ c[1] \in Codes

likertLetters == <<"A", "B", "C", "D", "E">>

\* likertMap[t] !== undefined
inLikertMap(t) == Len(t) = 1 /\ \E i \in DOMAIN likertLetters : likertLetters[i] = t[1]
likertMap(t) == CHOOSE i \in DOMAIN likertLetters : likertLetters[i] = t[1]

NoError == "null"
ErrSectionsNotFound == "RIASEC sections (5-10) not found"
ErrNoAnswers == "No answers found for RIASEC section questions"
ErrNoValidCategory == "No valid RIASEC category questions found in RIASEC sections (5-10)"
ErrFailed == "Failed to calculate RIASEC scores"

\* { R: 0, I: 0, A: 0, S: 0, E: 0, C: 0, error }
ZeroResult(error) ==
    [R |-> 0, I |-> 0, A |-> 0, S |-> 0, E |-> 0, C |-> 0, error |-> error]

ScoreOf(result, code) ==
    CASE code = "R" -> result.R
      [] code = "I" -> result.I
      [] code = "A" -> result.A
      [] code = "S" -> result.S
      [] code = "E" -> result.E
      [] code = "C" -> result.C

\* riasecScores = { R: { total: 0, count: 0 }, ... }
\* total is the sum of the finite values; nonFinite tells whether the sum
\* of the code is Infinity, -Infinity or NaN instead.
ZeroAccumulators == [c \in Codes |-> [total |-> 0, count |-> 0, nonFinite |-> "none"]]

\* The locals of one call.  outcome is "pending" while the call runs,
\* "returned" when it returned result, "thrown" when an exception left it.
IdleProc ==
    [pc |-> "idle", testAttemptId |-> 0, sectionOrders |-> {},
     answers |-> <<>>, questionIdsToUpdate |-> <<>>,
     next |-> 1, categoriesAssigned |-> 0, failedUpdates |-> {},
     riasecScores |-> ZeroAccumulators, processed |-> <<>>,
     questionsWithoutCategory |-> <<>>, raised |-> "none",
     outcome |-> "pending", result |-> ZeroResult(NoError)]

OffProc == [IdleProc EXCEPT !.pc = "off"]

(***************************************************************************)
(* calculateRIASECScores: the store queries                                *)
(***************************************************************************)
\* Answer.findAll({ where: { test_attempt_id }, include: [{ model: Question,
\* where: { section_id: sectionIds }, required: true, include: [Section] }] }):
\* the answers of the attempt to questions of the sections found, each with a
\* copy of its question row as it is now.
RECURSIVE findAnswersFrom(_, _, _)
findAnswersFrom(testAttemptId, sectionOrders, q) ==
    IF q \notin DOMAIN questions THEN <<>>
    ELSE (IF q \in DOMAIN answers[testAttemptId] /\ questions[q].section \in sectionOrders
          THEN <<[answer_text |-> answers[testAttemptId][q],
                  question |-> [id |-> q,
                                section |-> questions[q].section,
                                question_type |-> questions[q].question_type,
                                category |-> questions[q].category]]>>
          ELSE <<>>)
         \o findAnswersFrom(testAttemptId, sectionOrders, q + 1)

findAnswers(testAttemptId, sectionOrders) ==
    findAnswersFrom(testAttemptId, sectionOrders, 1)

\* Section.findAll({ where: { order_index: [5, 6, 7, 8, 9, 10] } })
findRiasecSections == catalog \cap RiasecOrders

\* if (!riasecSections || riasecSections.length === 0)
sectionsMissing(riasecSections) == riasecSections = {}

(***************************************************************************)
(* calculateRIASECScores: the self-healing pass                            *)
(***************************************************************************)
\* a variant that lists every question of a dimension section
needsCategory_always(answer) ==
    orderToRIASEC(answer.question.section) # "undefined"

needsCategory(answer) ==
    /\ orderToRIASEC(answer.question.section) # "undefined"
    /\ ~hasRiasecCategory(answer.question.category)

\* The list built by the first loop over the answers.
collectQuestionIdsToUpdate(fetched) ==
    LET need == SelectSeq(fetched, needsCategory)
    IN  [i \in DOMAIN need |->
            [id |-> need[i].question.id,
             category |-> orderToRIASEC(need[i].question.section)]]

(***************************************************************************)
(* calculateRIASECScores: the scoring pass                                 *)
(***************************************************************************)
\* answer.answer_text.trim() on a null text is a TypeError; the text is read
\* only in the two branches that parse it.
readsNullText(answer) ==
    /\ answer.question.question_type \in {"LIKERT_SCALE", "MULTIPLE_CHOICE"}
    /\ answer.answer_text = NULL

\* a variant that reads a LIKERT_SCALE answer as a MULTIPLE_CHOICE one
answerValue_likertAsChoice(answer) ==
    LET answerTextUpper == toUpperCase(trim(answer.answer_text))
    IN  IF answer.question.question_type \in {"LIKERT_SCALE", "MULTIPLE_CHOICE"}
        THEN IF inLikertMap(answerTextUpper) THEN likertMap(answerTextUpper)
             ELSE IF parseFloat(answer.answer_text).nan THEN 0
             ELSE parseFloat(answer.answer_text).value
        ELSE 0

answerValue(answer) ==
    LET answerTextUpper == toUpperCase(trim(answer.answer_text))
    IN  CASE answer.question.question_type = "LIKERT_SCALE" ->
                IF inLikertMap(answerTextUpper) THEN likertMap(answerTextUpper) ELSE 3
          [] answer.question.question_type = "MULTIPLE_CHOICE" ->
                IF inLikertMap(answerTextUpper) THEN likertMap(answerTextUpper)
                ELSE IF parseFloat(answer.answer_text).nan THEN 0
                ELSE parseFloat(answer.answer_text).value
          [] OTHER -> 0

\* whether the value of the answer is Infinity or -Infinity
answerInfinity(answer) ==
    IF /\ answer.question.question_type = "MULTIPLE_CHOICE"
       /\ ~inLikertMap(toUpperCase(trim(answer.answer_text)))
    THEN parseFloat(answer.answer_text).infinite
    ELSE "none"

\* total += value on the part of the sum that is not finite
addNonFinite(sum, value) ==
    IF value = "none" THEN sum
    ELSE IF sum = "none" \/ sum = value THEN value
    ELSE "NaN"

\* One iteration of the second loop over the answers.
scoreAnswer(st, answer) ==
    IF ~hasRiasecCategory(answer.question.category)
    THEN [st EXCEPT !.questionsWithoutCategory = Append(@, answer.question.id)]
    ELSE IF readsNullText(answer)
    THEN [st EXCEPT !.raised = "TypeError"]
    ELSE LET category == currentCategory(answer.question.category)[1]
             value == answerValue(answer)
         IN  [st EXCEPT
                !.riasecScores[category] =
                    [total |-> @.total + value, count |-> @.count + 1,
                     nonFinite |-> addNonFinite(@.nonFinite, answerInfinity(answer))],
                !.processed = Append(@, [id |-> answer.question.id,
                                         category |-> category,
                                         value |-> value])]

RECURSIVE scoreAnswersFrom(_, _, _)
scoreAnswersFrom(st, fetched, i) ==
    IF i > Len(fetched) \/ st.raised # "none" THEN st
    ELSE scoreAnswersFrom(scoreAnswer(st, fetched[i]), fetched, i + 1)

scoreAnswers(fetched) ==
    scoreAnswersFrom([riasecScores |-> ZeroAccumulators, processed |-> <<>>,
                      questionsWithoutCategory |-> <<>>, raised |-> "none"],
                     fetched, 1)

\* The score NaN: it is no number of hundredths, and every comparison with
\* it is false; -1 here, below every score.
NaN == -1

Min(a, b) == IF a < b THEN a ELSE b
Max(a, b) == IF a > b THEN a ELSE b

\* Math.round(num / den) for den > 0: the nearest integer, a half going up.
MathRound(num, den) == (2 * num + den) \div (2 * den)

\* percentage with Math.floor in the place of Math.round.
percentage_floors(data) ==
    Min(10000, Max(0, (2500 * (data.total - data.count)) \div data.count))

\* Math.round(((avgScore - 1) / 4) * 100 * 100) / 100, then the clamp to
\* 0..100, in hundredths: ((total/count - 1) / 4) * 10000 is
\* 2500 * (total - count) / count.
\* Of a sum that is not finite: Math.min(100, Math.max(0, Infinity)) is 100,
\* Math.min(100, Math.max(0, -Infinity)) is 0, and Math.round, Math.max and
\* Math.min of NaN are NaN.
percentage(data) ==
    CASE data.nonFinite = "NaN" -> NaN
      [] data.nonFinite = "+Infinity" -> 10000
      [] data.nonFinite = "-Infinity" -> 0
      [] OTHER -> Min(10000, Max(0, MathRound(2500 * (data.total - data.count),
                                             data.count)))

dimensionScore(data) == IF data.count > 0 THEN percentage(data) ELSE 0

totalCount(riasecScores) ==
    riasecScores["R"].count + riasecScores["I"].count + riasecScores["A"].count
    + riasecScores["S"].count + riasecScores["E"].count + riasecScores["C"].count

\* a variant that reports the error as soon as one dimension has no answer
scoringResult_errorOnEmptyDimension(riasecScores) ==
    [R |-> dimensionScore(riasecScores["R"]),
     I |-> dimensionScore(riasecScores["I"]),
     A |-> dimensionScore(riasecScores["A"]),
     S |-> dimensionScore(riasecScores["S"]),
     E |-> dimensionScore(riasecScores["E"]),
     C |-> dimensionScore(riasecScores["C"]),
     error |-> IF \E c \in Codes : riasecScores[c].count = 0
               THEN ErrNoValidCategory ELSE NoError]

scoringResult(riasecScores) ==
    [R |-> dimensionScore(riasecScores["R"]),
     I |-> dimensionScore(riasecScores["I"]),
     A |-> dimensionScore(riasecScores["A"]),
     S |-> dimensionScore(riasecScores["S"]),
     E |-> dimensionScore(riasecScores["E"]),
     C |-> dimensionScore(riasecScores["C"]),
     error |-> IF totalCount(riasecScores) = 0 THEN ErrNoValidCategory ELSE NoError]

(***************************************************************************)
(* calculateRIASECScores: the steps of one call                            *)
(***************************************************************************)
\* catchError with the exception thrown on to the caller.
catchError_rethrows(st) ==
    [st EXCEPT !.pc = "done", !.outcome = "thrown"]

\* The catch block of the function: the exception becomes a result.
catchError(st) ==
    [st EXCEPT !.pc = "done", !.outcome = "returned", !.result = ZeroResult(ErrFailed)]

\* returnEarly with error: null in the object returned.
returnEarly_nullError(st, error) ==
    [st EXCEPT !.pc = "done", !.outcome = "returned", !.result = ZeroResult(NoError)]

\* return { ..., error } before the loops
returnEarly(st, error) ==
    [st EXCEPT !.pc = "done", !.outcome = "returned", !.result = ZeroResult(error)]

\* if (!answers || answers.length === 0)
noAnswers(fetched) == fetched = <<>>

\* The locals after the two queries and the first loop, or the early return.
afterFetch(st) ==
    LET riasecSections == findRiasecSections
        fetched == findAnswers(st.testAttemptId, riasecSections)
        toUpdate == collectQuestionIdsToUpdate(fetched)
    IN  IF sectionsMissing(riasecSections) THEN returnEarly(st, ErrSectionsNotFound)
        ELSE IF noAnswers(fetched) THEN returnEarly(st, ErrNoAnswers)
        ELSE [st EXCEPT !.sectionOrders = riasecSections,
                        !.answers = fetched,
                        !.questionIdsToUpdate = toUpdate,
                        !.next = 1,
                        !.pc = IF toUpdate = <<>> THEN "score" ELSE "update"]

\* The locals after the second loop and the normalisation, or after the
\* exception of the loop was caught.
afterScoring(st) ==
    LET pass == scoreAnswers(st.answers)
    IN  IF pass.raised # "none"
        THEN catchError([st EXCEPT !.raised = pass.raised])
        ELSE [st EXCEPT !.riasecScores = pass.riasecScores,
                        !.processed = pass.processed,
                        !.questionsWithoutCategory = pass.questionsWithoutCategory,
                        !.pc = "done",
                        !.outcome = "returned",
                        !.result = scoringResult(pass.riasecScores)]

\* Process p moves to the locals st; a call that ended is recorded.
Step(p, st) ==
    /\ proc' = [proc EXCEPT ![p] = st]
    /\ returned' = IF st.pc = "done"
                   THEN [returned EXCEPT ![p] =
                            Append(@, [result |-> st.result,
                                       outcome |-> st.outcome,
                                       raised |-> st.raised])]
                   ELSE returned
    /\ UNCHANGED <<reportVars, callerVars>>

\* calculateRIASECScores(testAttemptId) up to the end of the first loop: the
\* catalog does not change, so the two queries are one step.
Begin(p) ==
    /\ proc[p].pc \in {"idle", "done"}
    /\ callsLeft[p] > 0
    /\ callsLeft' = [callsLeft EXCEPT ![p] = @ - 1]
    /\ LET st == [IdleProc EXCEPT !.testAttemptId = proc[p].testAttemptId]
       IN  \/ Step(p, afterFetch(st))
           \/ Step(p, catchError([st EXCEPT !.raised = "SequelizeError"]))
    /\ UNCHANGED <<catalog, questions, answers, updates>>

\* One iteration of the update loop: Question.update succeeds or throws, and
\* the loop goes on either way.
WriteCategory(p) ==
    /\ proc[p].pc = "update"
    /\ LET st == proc[p]
           update == st.questionIdsToUpdate[st.next]
           last == st.next = Len(st.questionIdsToUpdate)
           move(assigned, failed) ==
               [st EXCEPT !.categoriesAssigned = assigned,
                          !.failedUpdates = failed,
                          !.next = IF last THEN 1 ELSE st.next + 1,
                          !.pc = IF ~last THEN "update"
                                 ELSE IF assigned > 0 THEN "reload" ELSE "score"]
           logged(ok) == Append(updates, [caller |-> p,
                                          call |-> Len(returned[p]) + 1,
                                          id |-> update.id,
                                          category |-> update.category,
                                          ok |-> ok])
       IN  \/ /\ questions' = [questions EXCEPT ![update.id].category = <<update.category>>]
              /\ updates' = logged(TRUE)
              /\ Step(p, move(st.categoriesAssigned + 1, st.failedUpdates))
           \/ /\ UNCHANGED questions
              /\ updates' = logged(FALSE)
              /\ Step(p, move(st.categoriesAssigned, st.failedUpdates \cup {update.id}))
    /\ UNCHANGED <<catalog, answers, callsLeft>>

\* One iteration of the reload loop: answer.question.reload() reads the row
\* again, or throws.
Reload(p) ==
    /\ proc[p].pc = "reload"
    /\ LET st == proc[p]
           id == st.answers[st.next].question.id
           last == st.next = Len(st.answers)
       IN  \/ Step(p, [st EXCEPT
                        !.answers[st.next].question.category = questions[id].category,
                        !.answers[st.next].question.question_type = questions[id].question_type,
                        !.next = IF last THEN 1 ELSE st.next + 1,
                        !.pc = IF last THEN "score" ELSE "reload"])
           \/ Step(p, catchError([st EXCEPT !.raised = "SequelizeError"]))
    /\ UNCHANGED <<catalog, questions, answers, callsLeft, updates>>

\* The scoring loop, the normalisation and the return.
Score(p) ==
    /\ proc[p].pc = "score"
    /\ Step(p, afterScoring(proc[p]))
    /\ UNCHANGED <<catalog, questions, answers, callsLeft, updates>>

(***************************************************************************)
(* generateRIASECReport: the deterministic sections.  scores is a record   *)
(* of the six scores in hundredths.                                        *)
(***************************************************************************)
\* a variant that puts the boundary values in the lower band
getMatchLevel_strict(score) ==
    IF score > 3000 THEN "HIGH MATCH"
    ELSE IF score > 1500 THEN "MODERATE MATCH"
    ELSE "LOW MATCH"

getMatchLevel(score) ==
    IF score >= 3000 THEN "HIGH MATCH"
    ELSE IF score >= 1500 THEN "MODERATE MATCH"
    ELSE "LOW MATCH"

labelOf ==
    [R |-> "Realistic", I |-> "Investigative", A |-> "Artistic",
     S |-> "Social", E |-> "Enterprising", C |-> "Conventional"]

titleOf ==
    [R |-> "Realistic (Doers)", I |-> "Investigative (Thinkers)",
     A |-> "Artistic (Creators)", S |-> "Social (Helpers)",
     E |-> "Enterprising (Persuaders)", C |-> "Conventional (Organizers)"]

scoreMap(scores) ==
    [i \in DOMAIN riasecCodes |->
        [code |-> riasecCodes[i], score |-> scores[riasecCodes[i]],
         label |-> labelOf[riasecCodes[i]], title |-> titleOf[riasecCodes[i]]]]

\* a.localeCompare(b) for two upper-case letters
localeCompare(a, b) ==
    LET at(c) == CHOOSE i \in DOMAIN UpperChars : UpperChars[i] = c
    IN  IF at(a) < at(b) THEN -1 ELSE IF at(a) > at(b) THEN 1 ELSE 0

\* a variant that leaves equal scores in the order of scoreMap
compareScores_byScoreOnly(a, b) == b.score - a.score

\* the comparator of scoreMap.sort: negative when a goes before b
compareScores(a, b) ==
    IF b.score # a.score THEN b.score - a.score ELSE localeCompare(a.code, b.code)

\* item placed in a sorted sequence, after the elements it does not precede
RECURSIVE insertSorted(_, _)
insertSorted(sorted, item) ==
    IF sorted = <<>> THEN <<item>>
    ELSE IF compareScores(item, Head(sorted)) < 0 THEN <<item>> \o sorted
    ELSE <<Head(sorted)>> \o insertSorted(Tail(sorted), item)

\* Array.prototype.sort with compareScores (a stable sort)
RECURSIVE sortScores(_)
sortScores(items) ==
    IF items = <<>> THEN <<>>
    ELSE insertSorted(sortScores(SubSeq(items, 1, Len(items) - 1)), items[Len(items)])

sortedScores(scores) == sortScores(scoreMap(scores))

\* seq.slice(start, end)
slice(seq, start, end) == SubSeq(seq, start + 1, Min(end, Len(seq)))

\* the score of a trait is Math.round(score): whole percent points
topTraits(scores) ==
    LET sorted == slice(sortedScores(scores), 0, 3)
    IN  [i \in DOMAIN sorted |->
            [code |-> sorted[i].code, label |-> sorted[i].label,
             score |-> MathRound(sorted[i].score, 100)]]

top3Codes(scores) ==
    LET sorted == slice(sortedScores(scores), 0, 3)
    IN  [i \in DOMAIN sorted |-> sorted[i].code]

\* a variant that tries the rule of the low profile first
decisionRisk_lowProfileFirst(scores) ==
    LET sorted == sortedScores(scores)
        topScore == sorted[1].score
        diffTopSecond == topScore - sorted[2].score
        diffSecondThird == sorted[2].score - sorted[3].score
    IN  IF topScore < 5000 \/ (topScore - sorted[6].score) < 2000
        THEN [level |-> "High Risk", stability |-> "Developing"]
        ELSE IF diffTopSecond < 1000 /\ diffSecondThird < 1000
        THEN [level |-> "Moderate Risk", stability |-> "Developing"]
        ELSE IF diffTopSecond >= 1500 /\ diffSecondThird >= 1000
        THEN [level |-> "Low Risk", stability |-> "Highly Stable"]
        ELSE [level |-> "Moderate Risk", stability |-> "Moderately Stable"]

decisionRisk(scores) ==
    LET sorted == sortedScores(scores)
        topScore == sorted[1].score
        secondScore == sorted[2].score
        thirdScore == sorted[3].score
        diffTopSecond == topScore - secondScore
        diffSecondThird == secondScore - thirdScore
    IN  IF diffTopSecond < 1000 /\ diffSecondThird < 1000
        THEN [level |-> "Moderate Risk", stability |-> "Developing"]
        ELSE IF diffTopSecond >= 1500 /\ diffSecondThird >= 1000
        THEN [level |-> "Low Risk", stability |-> "Highly Stable"]
        ELSE IF topScore < 5000 \/ (topScore - sorted[6].score) < 2000
        THEN [level |-> "High Risk", stability |-> "Developing"]
        ELSE [level |-> "Moderate Risk", stability |-> "Moderately Stable"]

(***************************************************************************)
(* calculateCareerPathways                                                 *)
(***************************************************************************)
allDegrees ==
    <<"BCA", "MCA", "M.Sc (IT)", "M.Sc (Computer Science)", "B.Tech (CS)",
      "B.Tech (IT)", "B.E. (Computer Engineering)", "B.Sc (IT)",
      "B.Sc (Computer Science)", "B.Voc (SD)">>

allRoles ==
    <<"Full Stack Developer", "Frontend Developer", "Backend Developer",
      "Mobile App Developer", "Data Analyst", "Data Scientist", "Data Engineer",
      "DevOps Engineer", "Cloud Engineer", "Web Designer", "UI/UX Designer",
      "Product Designer", "Software Tester", "Cybersecurity Analyst",
      "AI / ML Engineer", "Game Developer">>

\* the table of calculateDegree as indices of allDegrees, counted from 0
degreeIndex(primary, secondary) ==
    LET pair == <<primary, secondary>>
    IN  CASE pair \in {<<"A", "I">>, <<"A", "C">>, <<"A", "R">>, <<"A", "S">>,
                       <<"E", "A">>, <<"A", "E">>} -> 0
          [] pair = <<"I", "S">> -> 1
          [] pair = <<"I", "C">> -> 2
          [] pair \in {<<"I", "A">>, <<"I", "R">>, <<"E", "I">>, <<"I", "E">>} -> 4
          [] pair \in {<<"C", "I">>, <<"C", "R">>, <<"C", "S">>, <<"E", "C">>,
                       <<"C", "E">>} -> 5
          [] pair \in {<<"R", "I">>, <<"R", "A">>, <<"R", "C">>, <<"E", "R">>,
                       <<"R", "E">>} -> 6
          [] pair \in {<<"S", "A">>, <<"S", "C">>, <<"E", "S">>, <<"S", "E">>} -> 7
          [] pair = <<"S", "I">> -> 8
          [] pair = <<"C", "A">> -> 9
          [] OTHER -> 4

calculateDegree(primary, secondary) == allDegrees[degreeIndex(primary, secondary) + 1]

calculateRole(primary, secondary) ==
    LET pair == <<primary, secondary>>
    IN  CASE pair = <<"I", "A">> -> "Data Scientist"
          [] pair = <<"I", "C">> -> "Data Engineer"
          [] pair = <<"A", "I">> -> "UI/UX Designer"
          [] pair = <<"A", "C">> -> "Web Designer"
          [] pair = <<"C", "I">> -> "Data Analyst"
          [] pair = <<"C", "A">> -> "Software Tester"
          [] pair = <<"I", "R">> -> "AI / ML Engineer"
          [] pair = <<"R", "I">> -> "DevOps Engineer"
          [] pair = <<"A", "S">> -> "Product Designer"
          [] pair = <<"S", "A">> -> "Frontend Developer"
          [] pair = <<"I", "S">> -> "Backend Developer"
          [] pair = <<"S", "I">> -> "Full Stack Developer"
          [] pair = <<"R", "C">> -> "Cybersecurity Analyst"
          [] pair = <<"C", "R">> -> "Backend Developer"
          [] pair = <<"A", "R">> -> "Game Developer"
          [] pair = <<"R", "A">> -> "Cybersecurity Analyst"
          [] pair = <<"S", "C">> -> "Mobile App Developer"
          [] pair = <<"C", "S">> -> "Frontend Developer"
          [] OTHER -> "Full Stack Developer"

personaMap ==
    [role \in {allRoles[i] : i \in DOMAIN allRoles} |->
        CASE role = "Data Scientist" -> "The Insight Architect"
          [] role = "Data Engineer" -> "The Analytical Strategist"
          [] role = "UI/UX Designer" -> "The Creative Innovator"
          [] role = "Web Designer" -> "The Design Visionary"
          [] role = "Data Analyst" -> "The Precision Analyst"
          [] role = "Software Tester" -> "The Quality Specialist"
          [] role = "AI / ML Engineer" -> "The Intelligent Builder"
          [] role = "DevOps Engineer" -> "The Technical Architect"
          [] role = "Product Designer" -> "The User Experience Creator"
          [] role = "Frontend Developer" -> "The Interface Designer"
          [] role = "Backend Developer" -> "The System Architect"
          [] role = "Full Stack Developer" -> "The Solution Integrator"
          [] role = "Mobile App Developer" -> "The Mobile Innovator"
          [] role = "Cloud Engineer" -> "The Infrastructure Specialist"
          [] role = "Cybersecurity Analyst" -> "The Security Guardian"
          [] role = "Game Developer" -> "The Interactive Creator"]

calculatePersona(role) ==
    IF role \in DOMAIN personaMap THEN personaMap[role] ELSE "The Technical Professional"

\* the first words of each entry of focusMap stand for the entry
focusMap ==
    [role \in {allRoles[i] : i \in DOMAIN allRoles} |->
        CASE role = "Data Scientist" -> "Analyzing complex data patterns"
          [] role = "Data Engineer" -> "Building robust data infrastructure"
          [] role = "UI/UX Designer" -> "Designing intuitive user experiences"
          [] role = "Web Designer" -> "Creating visually compelling digital products"
          [] role = "Data Analyst" -> "Ensuring data quality and system reliability"
          [] role = "Software Tester" -> "Maintaining software quality standards"
          [] role = "AI / ML Engineer" -> "Developing intelligent systems and algorithms"
          [] role = "DevOps Engineer" -> "Architecting scalable infrastructure solutions"
          [] role = "Product Designer" -> "Creating user-centered design solutions"
          [] role = "Frontend Developer" -> "Building engaging user interfaces"
          [] role = "Backend Developer" -> "Designing and implementing backend systems"
          [] role = "Full Stack Developer" -> "Developing end-to-end solutions"
          [] role = "Mobile App Developer" -> "Creating mobile applications"
          [] role = "Cloud Engineer" -> "Designing and managing cloud infrastructure"
          [] role = "Cybersecurity Analyst" -> "Protecting digital assets"
          [] role = "Game Developer" -> "Creating interactive entertainment experiences"]

calculateFocus(role) ==
    IF role \in DOMAIN focusMap THEN focusMap[role]
    ELSE "Developing software solutions"

\* seq.filter((v, i, a) => a.indexOf(v) === i): the first occurrences
RECURSIVE firstOccurrencesFrom(_, _)
firstOccurrencesFrom(seq, i) ==
    IF i > Len(seq) THEN <<>>
    ELSE (IF \E j \in 1..(i - 1) : seq[j] = seq[i] THEN <<>> ELSE <<seq[i]>>)
         \o firstOccurrencesFrom(seq, i + 1)

firstOccurrences(seq) == firstOccurrencesFrom(seq, 1)

includes(seq, x) == \E i \in DOMAIN seq : seq[i] = x

\* seq.indexOf(x), counted from 0, and -1 when x is not in seq
indexOf(seq, x) ==
    IF includes(seq, x) THEN (CHOOSE i \in DOMAIN seq :
                                 seq[i] = x /\ \A j \in 1..(i - 1) : seq[j] # x) - 1
    ELSE -1

\* a variant with the secondary code first
riasecMixOf_secondaryFirst(codes) == <<codes[2], "-", codes[1], "-", codes[3]>>

\* `${a}-${b}-${c}` and its split('-')
riasecMixOf(codes) == <<codes[1], "-", codes[2], "-", codes[3]>>
splitMix(riasecMix) == SelectSeq(riasecMix, LAMBDA c : c # "-")

\* a variant without the rule of the high confidence
calculateConfidence_withoutHighRule(riasecMix, top3, top3Scores, allScores) ==
    IF allScores[Head(splitMix(riasecMix))] >= 2000
    THEN [level |-> "MODERATE", label |-> "Moderate Confidence"]
    ELSE [level |-> "LOW", label |-> "Low Confidence"]

\* calculateConfidence.  The scores are hundredths, so that a threshold on
\* scoreFit = avgScore / max(avgTopScore, 1) and on
\* gapPenalty = (primaryGap + secondaryGap) / max(topScore, 1) is a comparison
\* of integers: with n the number of averaged pathway scores,
\* scoreFit >= f/100 is 300 * sum >= f * n * max(sumTop, 300), and
\* gapPenalty <= g/100 is 100 * gaps <= g * max(topScore, 100).
calculateConfidence(riasecMix, top3, top3Scores, allScores) ==
    LET pathwayCodes == splitMix(riasecMix)
        scoreOf(code) == IF code \in DOMAIN allScores THEN allScores[code] ELSE 0
        at(seq, i) == IF i <= Len(seq) THEN seq[i] ELSE 0
        hasTertiary == Len(pathwayCodes) >= 3
        primaryScore == scoreOf(pathwayCodes[1])
        secondaryScore == scoreOf(pathwayCodes[2])
        tertiaryScore == IF hasTertiary THEN scoreOf(pathwayCodes[3]) ELSE 0
        topScore == at(top3Scores, 1)
        secondScore == at(top3Scores, 2)
        thirdScore == at(top3Scores, 3)
        primaryRank == indexOf(top3, pathwayCodes[1])
        secondaryRank == indexOf(top3, pathwayCodes[2])
        tertiaryRank == IF hasTertiary THEN indexOf(top3, pathwayCodes[3]) ELSE -1
        abs(x) == IF x < 0 THEN -x ELSE x
        primaryGap == IF primaryRank = 0 THEN 0 ELSE topScore - primaryScore
        secondaryGap ==
            IF secondaryRank >= 0
            THEN abs((IF secondaryRank = 0 THEN topScore
                      ELSE IF secondaryRank = 1 THEN secondScore
                      ELSE thirdScore) - secondaryScore)
            ELSE topScore - secondaryScore
        matchesInTop3 ==
            Cardinality({i \in 1..3 :
                            <<primaryRank, secondaryRank, tertiaryRank>>[i] >= 0})
        sum == primaryScore + secondaryScore + tertiaryScore
        n == IF hasTertiary THEN 3 ELSE 2
        sumTop == topScore + secondScore + thirdScore
        scoreFitAtLeast(f) == 300 * sum >= f * n * Max(sumTop, 300)
        gapPenaltyAtMost(g) == 100 * (primaryGap + secondaryGap) <= g * Max(topScore, 100)
    IN  IF Len(pathwayCodes) < 2
        THEN [level |-> "LOW", label |-> "Low Confidence"]
        ELSE IF /\ primaryRank = 0 /\ secondaryRank = 1 /\ matchesInTop3 >= 2
                /\ primaryScore >= 3000 /\ scoreFitAtLeast(85) /\ gapPenaltyAtMost(15)
        THEN [level |-> "HIGH", label |-> "High Confidence"]
        ELSE IF /\ primaryRank = 0 /\ matchesInTop3 >= 2
                /\ primaryScore >= 2500 /\ scoreFitAtLeast(70) /\ gapPenaltyAtMost(25)
        THEN [level |-> "MODERATE", label |-> "Moderate Confidence"]
        ELSE IF /\ primaryRank >= 0 /\ primaryRank <= 2 /\ matchesInTop3 >= 1
                /\ primaryScore >= 2000 /\ scoreFitAtLeast(60)
        THEN [level |-> "MODERATE", label |-> "Moderate Confidence"]
        ELSE [level |-> "LOW", label |-> "Low Confidence"]

\* a variant that pads with the first roles of allRoles, used or not
roleDataOf_padsWithUsedRoles(top3) ==
    LET roleData == firstOccurrences(<<calculateRole(top3[1], top3[2]),
                                       calculateRole(top3[1], top3[3]),
                                       calculateRole(top3[2], top3[3])>>)
    IN  slice(roleData \o allRoles, 0, 5)

\* a variant that keeps the roles of the table only
roleDataOf_calculatedOnly(top3) ==
    firstOccurrences(<<calculateRole(top3[1], top3[2]),
                       calculateRole(top3[1], top3[3]),
                       calculateRole(top3[2], top3[3])>>)

\* the roles of the pathways: the three of the table, then roles of allRoles
roleDataOf(top3) ==
    LET roleData == firstOccurrences(<<calculateRole(top3[1], top3[2]),
                                       calculateRole(top3[1], top3[3]),
                                       calculateRole(top3[2], top3[3])>>)
        additionalRoles ==
            slice(SelectSeq(allRoles, LAMBDA r : ~includes(roleData, r)),
                  0, 5 - Len(roleData))
    IN  slice(roleData \o additionalRoles, 0, 5)

\* the degrees the pathways draw from
degreesOf(top3) ==
    LET degreeCombinations ==
            <<<<top3[1], top3[2]>>, <<top3[1], top3[3]>>, <<top3[2], top3[3]>>,
              <<top3[2], top3[1]>>, <<top3[3], top3[1]>>, <<top3[3], top3[2]>>>>
        calculatedDegrees ==
            firstOccurrences([i \in DOMAIN degreeCombinations |->
                calculateDegree(degreeCombinations[i][1], degreeCombinations[i][2])])
        additionalDegrees ==
            SelectSeq(allDegrees, LAMBDA d : ~includes(calculatedDegrees, d))
        degrees == slice(calculatedDegrees \o additionalDegrees, 0, 10)
    IN  IF Len(degrees) < 5
        THEN degrees \o SelectSeq(allDegrees, LAMBDA d : ~includes(degrees, d))
        ELSE degrees

\* the degree of the pathway at idx (counted from 0), usedDegrees holding
\* the degrees of the pathways before it
degreeAt(idx, degrees, usedDegrees) ==
    LET degree == IF idx < Len(degrees) THEN degrees[idx + 1]
                  ELSE allDegrees[(idx % Len(allDegrees)) + 1]
        availableDegrees == SelectSeq(allDegrees, LAMBDA d : d \notin usedDegrees)
    IN  IF degree \notin usedDegrees THEN degree
        ELSE IF availableDegrees = <<>> THEN "B.Tech (CS)"
        ELSE availableDegrees[(idx % Len(availableDegrees)) + 1]

\* allRoleData.map(...): each role with its degree
RECURSIVE degreesFrom(_, _, _, _)
degreesFrom(roles, idx, degrees, usedDegrees) ==
    IF idx >= Len(roles) THEN <<>>
    ELSE LET degree == degreeAt(idx, degrees, usedDegrees)
         IN  <<degree>> \o degreesFrom(roles, idx + 1, degrees, usedDegrees \cup {degree})

\* calculateCareerPathways(top3Codes, scores); the function reads the six
\* scores and sortedScores of the enclosing call, which are those of scores.
calculateCareerPathways(top3, scores) ==
    LET primaryRiasecMix == riasecMixOf(top3)
        sorted == slice(sortedScores(scores), 0, 3)
        top3Scores == [i \in DOMAIN sorted |-> sorted[i].score]
        confidence == calculateConfidence(primaryRiasecMix, top3, top3Scores, scores)
        allRoleData == roleDataOf(top3)
        pathwayDegrees == degreesFrom(allRoleData, 0, degreesOf(top3), {})
        entry(role, degree) ==
            [degree |-> degree,
             riasecMix |-> primaryRiasecMix,
             careerRole |-> role,
             professionalPersona |-> calculatePersona(role),
             coreTasksFocus |-> calculateFocus(role),
             confidence |-> confidence.label,
             confidenceLevel |-> confidence.level]
    IN  [i \in DOMAIN allRoleData |-> entry(allRoleData[i], pathwayDegrees[i])]

(***************************************************************************)
(* generateRIASECReport: the generator's answer.  A text of the generator  *)
(* is a sequence of tokens: a space, a markdown fence, the name of a JSON  *)
(* document, or words that are no JSON; a narrative is a sequence of       *)
(* phrases.                                                                *)
(***************************************************************************)
maxRetries == 3

ErrNoApiKey == "GEMINI_API_KEY environment variable is not set"
ErrScoresRequired == "All RIASEC scores (R, I, A, S, E, C) are required"
ErrInvalidResponse == "Invalid response from AI service. Please try again."
ErrEmptyContent == "AI service returned empty content. Please try again."
ErrBlocked == "Content was blocked by safety filters. Please try again."
ErrInvalidText == "AI service returned invalid response. Please try again."
ErrEmptyResponse == "AI service returned empty response. Please try again."
ErrParse == "Failed to parse AI response. Please try again."
ErrStructure == "Invalid report structure from AI service"
ErrAuth == "Gemini API authentication failed. Please check your API key."
ErrRateLimit == "Gemini API rate limit exceeded. Please try again in a few minutes."
ErrServer == "Gemini API server error. Please try again later."
ErrApi == "API error (status). Please try again."
ErrNetwork == "Network error: Could not reach AI service. Please check your connection and try again."
ErrTimeout == "Request timeout: AI service took too long to respond. Please try again."
ErrGenerationFailed == "RIASEC report generation failed: message. Please try again."

\* what the prompt tells the generator to echo
promptOf(scores) ==
    [decisionRisk |-> decisionRisk(scores),
     topTraits |-> topTraits(scores),
     dimensions |-> [i \in DOMAIN riasecCodes |->
                        [code |-> riasecCodes[i],
                         title |-> titleOf[riasecCodes[i]],
                         score |-> MathRound(scores[riasecCodes[i]], 100),
                         matchLevel |-> getMatchLevel(scores[riasecCodes[i]])]]]

unwantedPhrases ==
    <<"lack of highly dominant interests", "broad but not deeply specialized",
      "may require further refinement", "requires further refinement",
      "needs further refinement">>

\* the phrases removed, the rest kept in order (a phrase is written in lower
\* case, the case the expressions of the code are insensitive to)
removeUnwanted(text) == SelectSeq(text, LAMBDA w : ~includes(unwantedPhrases, w))

DocumentNames ==
    {"echo", "phrases", "risk", "traits", "match", "pathways",
     "noProfile", "noDimensions", "null"}

generatedPathways ==
    <<[degree |-> "MBA", riasecMix |-> <<"E">>, careerRole |-> "Astronaut",
       professionalPersona |-> "The Explorer", coreTasksFocus |-> "Exploring",
       confidence |-> "High Confidence", confidenceLevel |-> "HIGH"]>>

\* The JSON documents a generator can answer a prompt with: the echo of the
\* prompt with narratives; the same with unwanted phrases; with another
\* decision risk, other top traits, other match levels; with a
\* careerPathways field of its own; without riasecProfile; with dimensions
\* that is no array.  A field the JSON does not have is the empty sequence.
documentOf(name, prompt) ==
    LET otherRisk == IF prompt.decisionRisk.level = "Low Risk"
                     THEN [level |-> "High Risk", stability |-> "Developing"]
                     ELSE [level |-> "Low Risk", stability |-> "Highly Stable"]
        risk == IF name = "risk" THEN otherRisk ELSE prompt.decisionRisk
        narrative(words) == IF name = "phrases"
                            THEN <<"broad but not deeply specialized">> \o words
                                 \o <<"needs further refinement">>
                            ELSE words
        traits == IF name = "traits"
                  THEN [i \in DOMAIN prompt.topTraits |->
                           prompt.topTraits[Len(prompt.topTraits) + 1 - i]]
                  ELSE prompt.topTraits
        level(matchLevel) == IF name # "match" THEN matchLevel
                             ELSE IF matchLevel = "HIGH MATCH" THEN "LOW MATCH"
                             ELSE "HIGH MATCH"
    IN  [riasecProfile |->
            IF name = "noProfile" THEN <<>>
            ELSE <<[decisionRisk |-> [level |-> risk.level,
                                      stability |-> risk.stability,
                                      insight |-> narrative(<<"a consistent profile">>)],
                    topTraits |-> traits]>>,
         dimensions |->
            [isArray |-> name # "noDimensions",
             items |-> IF name = "noDimensions" THEN <<>>
                       ELSE [i \in DOMAIN prompt.dimensions |->
                               [code |-> prompt.dimensions[i].code,
                                title |-> prompt.dimensions[i].title,
                                score |-> prompt.dimensions[i].score,
                                matchLevel |-> level(prompt.dimensions[i].matchLevel),
                                personalizedAnalysis |->
                                    narrative(<<"prefers such tasks">>)]]],
         careerPathways |-> IF name = "pathways" THEN generatedPathways ELSE <<>>]

\* JSON.parse(responseText): a syntax error unless the text is one document;
\* the value is empty for the document null.
JSONparse(responseText, prompt) ==
    IF Len(responseText) = 1 /\ responseText[1] \in DocumentNames
    THEN [ok |-> TRUE,
          value |-> IF responseText[1] = "null" THEN <<>>
                    ELSE <<documentOf(responseText[1], prompt)>>]
    ELSE [ok |-> FALSE, value |-> <<>>]

\* the text without its markdown fences ("[fence json]" and "[fence]" are the
\* three backquotes with and without the word json)
stripFences(responseText) ==
    LET trimmed == trim(responseText)
        noJson == IF trimmed # <<>> /\ Head(trimmed) = "[fence json]" THEN Tail(trimmed)
                  ELSE trimmed
        noOpen == IF noJson # <<>> /\ Head(noJson) = "[fence]" THEN Tail(noJson) ELSE noJson
        noClose == IF noOpen # <<>> /\ noOpen[Len(noOpen)] = "[fence]"
                   THEN SubSeq(noOpen, 1, Len(noOpen) - 1) ELSE noOpen
    IN  trim(noClose)

\* the post-processing of the narratives
cleanReport(report) ==
    LET profile == report.riasecProfile[1]
        cleanProfile ==
            IF profile.decisionRisk.insight # <<>>
            THEN [profile EXCEPT !.decisionRisk.insight = removeUnwanted(@)]
            ELSE profile
        cleanDimension(d) ==
            IF d.personalizedAnalysis # <<>>
            THEN [d EXCEPT !.personalizedAnalysis = removeUnwanted(@)]
            ELSE d
    IN  [report EXCEPT
            !.riasecProfile = <<cleanProfile>>,
            !.dimensions.items = [i \in DOMAIN @ |-> cleanDimension(@[i])]]

\* the assignment with the generator's careerPathways left in place
withCareerPathways_keepsGenerated(report, pathways) ==
    IF report.careerPathways # <<>> THEN report
    ELSE [report EXCEPT !.careerPathways = pathways]

\* report.careerPathways = calculateCareerPathways(...)
withCareerPathways(report, pathways) == [report EXCEPT !.careerPathways = pathways]

(***************************************************************************)
(* generateRIASECReport: the call                                          *)
(***************************************************************************)
ZeroScores == [c \in Codes |-> 0]

\* The locals of a call.  testAttemptId 0 is the argument left out; report
\* and result.report are empty for null, lastError for null, response for
\* an iteration in which axios.post did not resolve; posts counts the calls
\* of axios.post.
IdleGen ==
    [pc |-> "idle", scores |-> ZeroScores, undefinedCodes |-> {},
     testAttemptId |-> 0, sortedScores |-> <<>>, prompt |-> <<>>,
     attempt |-> 0, posts |-> 0, lastError |-> <<>>, response |-> <<>>,
     parsed |-> <<>>, report |-> <<>>,
     result |-> [report |-> <<>>, error |-> NoError]]

OffGen == [IdleGen EXCEPT !.pc = "off"]

returnReport(st, report, error) ==
    [st EXCEPT !.pc = "returned", !.result = [report |-> report, error |-> error]]

\* the statements before the retry loop
startGenerate(scores, undefinedCodes, testAttemptId) ==
    LET st == [IdleGen EXCEPT !.scores = scores,
                              !.undefinedCodes = undefinedCodes,
                              !.testAttemptId = testAttemptId]
    IN  IF ~Truthy(apiKey) \/ ~Truthy(trim(apiKey))
        THEN returnReport(st, <<>>, ErrNoApiKey)
        ELSE IF undefinedCodes # {}
        THEN returnReport(st, <<>>, ErrScoresRequired)
        ELSE [st EXCEPT !.sortedScores = sortedScores(scores),
                        !.prompt = <<promptOf(scores)>>,
                        !.pc = "post"]

\* continue: the next iteration of the loop, or the statement after it
continue(st) ==
    IF st.attempt + 1 <= maxRetries
    THEN [st EXCEPT !.attempt = @ + 1, !.pc = "post"]
    ELSE returnReport(st, <<>>, ErrRateLimit)

\* a variant that also retries the responses 400..499
catchReportError_retriesClientErrors(st0, error) ==
    LET st == [st0 EXCEPT !.lastError = <<error>>]
    IN  IF st.attempt < maxRetries /\ error.kind \in {"response", "request", "timeout"}
        THEN [st EXCEPT !.attempt = @ + 1, !.pc = "post"]
        ELSE returnReport(st, <<>>, ErrApi)

\* the catch block of the loop; error is what axios.post or a statement of
\* the try block threw
catchReportError(st0, error) ==
    LET st == [st0 EXCEPT !.lastError = <<error>>]
        retry == st.attempt < maxRetries
    IN  CASE error.kind = "response" ->
                IF error.status = 429 /\ retry THEN continue(st)
                ELSE IF error.status >= 500 /\ error.status < 600 /\ retry
                THEN continue(st)
                ELSE IF error.status \in {401, 403} THEN returnReport(st, <<>>, ErrAuth)
                ELSE IF error.status = 429 THEN returnReport(st, <<>>, ErrRateLimit)
                ELSE IF error.status >= 500 THEN returnReport(st, <<>>, ErrServer)
                ELSE returnReport(st, <<>>, ErrApi)
          [] error.kind = "request" ->
                IF retry THEN continue(st) ELSE returnReport(st, <<>>, ErrNetwork)
          [] error.kind = "timeout" ->
                IF retry THEN continue(st) ELSE returnReport(st, <<>>, ErrTimeout)
          [] OTHER ->
                IF error.message \in {"api key", "authentication"}
                THEN returnReport(st, <<>>, ErrAuth)
                ELSE IF error.message \in {"quota", "rate limit"}
                THEN returnReport(st, <<>>, ErrRateLimit)
                ELSE returnReport(st, <<>>, ErrGenerationFailed)

thrown(kind, status, message) ==
    [kind |-> kind, status |-> status, message |-> message, candidates |-> <<>>]

\* the try block after axios.post resolved with response.data
afterResponse(st, data) ==
    IF data.candidates = <<>> THEN returnReport(st, <<>>, ErrInvalidResponse)
    ELSE LET candidate == data.candidates[1]
         IN
    IF candidate.parts = <<>> THEN returnReport(st, <<>>, ErrEmptyContent)
    ELSE IF candidate.blocked THEN returnReport(st, <<>>, ErrBlocked)
    ELSE IF ~Truthy(candidate.parts[1]) THEN returnReport(st, <<>>, ErrInvalidText)
    ELSE LET responseText == stripFences(candidate.parts[1])
             json == JSONparse(responseText, st.prompt[1])
         IN
    IF responseText = <<>> THEN returnReport(st, <<>>, ErrEmptyResponse)
    ELSE IF ~json.ok THEN returnReport(st, <<>>, ErrParse)
    ELSE IF json.value = <<>>
    THEN catchReportError(st, thrown("TypeError", 0, "Cannot read properties of null"))
    ELSE LET parsed == json.value[1]
         IN
    IF parsed.riasecProfile = <<>> \/ ~parsed.dimensions.isArray
    THEN returnReport(st, <<>>, ErrStructure)
    ELSE LET report == withCareerPathways(
                           cleanReport(parsed),
                           calculateCareerPathways(top3Codes(st.scores), st.scores))
             kept == [st EXCEPT !.parsed = <<parsed>>, !.report = <<report>>]
         IN  IF kept.testAttemptId # 0
             THEN [kept EXCEPT !.pc = "findOne"]
             ELSE returnReport(kept, <<report>>, NoError)

\* What axios.post can do: resolve with a body, or reject with an HTTP
\* status, without a response, on the timeout, or with another error.
resolved(candidates) ==
    [kind |-> "resolved", status |-> 200, message |-> "", candidates |-> candidates]

ResponseTexts ==
    {<<name>> : name \in DocumentNames}
    \cup {<<"[fence json]", " ", "echo", " ", "[fence]">>,
          <<"[fence json]", "[fence]">>, <<"no json">>, <<" ">>, <<>>, NULL}

PostOutcomes ==
    {resolved(<<>>), resolved(<<[parts |-> <<>>, blocked |-> FALSE]>>),
     resolved(<<[parts |-> <<<<"echo">>>>, blocked |-> TRUE]>>)}
    \cup {resolved(<<[parts |-> <<text>>, blocked |-> FALSE]>>) : text \in ResponseTexts}
    \cup {thrown("response", status, "") : status \in {400, 401, 403, 429, 500, 503}}
    \cup {thrown("request", 0, ""), thrown("timeout", 0, "timeout")}
    \cup {thrown("error", 0, message) : message \in {"api key", "quota", "other"}}

\* The six scores a call is made with; every value is a multiple of a
\* quarter point, which binary floating point holds exactly.
ScoreProfiles ==
    {[R |-> 8500, I |-> 7000, A |-> 1000, S |-> 500, E |-> 500, C |-> 500],
     [R |-> 5000, I |-> 5000, A |-> 5000, S |-> 5000, E |-> 5000, C |-> 5000],
     [R |-> 2500, I |-> 0, A |-> 0, S |-> 0, E |-> 0, C |-> 0],
     [R |-> 3000, I |-> 6000, A |-> 3000, S |-> 5000, E |-> 3000, C |-> 3000],
     ZeroScores}

\* generateRIASECReport({R, I, A, S, E, C, testAttemptId}) up to the loop,
\* on six scores of profiles, with or without a test attempt of testAttemptIds
GenerateFrom(p, profiles, testAttemptIds) ==
    /\ gen[p].pc \in {"idle", "returned"}
    /\ callsLeft[p] > 0
    /\ callsLeft' = [callsLeft EXCEPT ![p] = @ - 1]
    /\ \E scores \in profiles, undefinedCodes \in {{}, {"C"}},
          testAttemptId \in testAttemptIds :
            gen' = [gen EXCEPT ![p] = startGenerate(scores, undefinedCodes, testAttemptId)]
    /\ UNCHANGED <<scoringVars, apiKey, interpretedResults, cacheWrites, callerVars>>

Generate(p) == GenerateFrom(p, ScoreProfiles, {0} \cup Attempts)

\* One iteration of the retry loop, up to the return, the continue or the
\* query of the cache; axios.post ends in one of outcomes.
PostFrom(p, outcomes) ==
    /\ gen[p].pc = "post"
    /\ \E outcome \in outcomes :
          LET st == [gen[p] EXCEPT !.posts = @ + 1,
                                   !.response = IF outcome.kind = "resolved"
                                                THEN <<outcome.candidates>>
                                                ELSE <<>>]
          IN  gen' = [gen EXCEPT ![p] = IF outcome.kind = "resolved"
                                        THEN afterResponse(st, outcome)
                                        ELSE catchReportError(st, outcome)]
    /\ UNCHANGED <<scoringVars, callsLeft, apiKey, interpretedResults, cacheWrites,
                   callerVars>>

Post(p) == PostFrom(p, PostOutcomes)

\* InterpretedResult.findOne: the row, no row, or an exception, which is
\* logged and ends the caching.
CacheFindOne(p) ==
    /\ gen[p].pc = "findOne"
    /\ LET st == gen[p]
       IN  \/ /\ interpretedResults[st.testAttemptId] # <<>>
              /\ gen' = [gen EXCEPT ![p].pc = "update"]
           \/ /\ interpretedResults[st.testAttemptId] = <<>>
              /\ gen' = [gen EXCEPT ![p] = returnReport(st, st.report, NoError)]
           \/ gen' = [gen EXCEPT ![p] = returnReport(st, st.report, NoError)]
    /\ UNCHANGED <<scoringVars, callsLeft, apiKey, interpretedResults, cacheWrites,
                   callerVars>>

\* a variant in which the first envelope of a row stays: the update is a
\* no-op on a row that holds one
CacheUpdate_keepsFirst(p) ==
    /\ gen[p].pc = "update"
    /\ LET st == gen[p]
           envelope == [scores |-> st.scores, report |-> st.report[1]]
           row == interpretedResults[st.testAttemptId]
       IN  /\ gen' = [gen EXCEPT ![p] = returnReport(st, st.report, NoError)]
           /\ \/ /\ interpretedResults' =
                       [interpretedResults EXCEPT
                           ![st.testAttemptId] =
                               IF row[1].riasec_report # <<>> THEN row
                               ELSE <<[riasec_report |-> <<envelope>>]>>]
                 /\ cacheWrites' = Append(cacheWrites,
                                          [caller |-> p,
                                           test_attempt_id |-> st.testAttemptId,
                                           riasec_report |-> envelope])
              \/ UNCHANGED <<interpretedResults, cacheWrites>>
    /\ UNCHANGED <<scoringVars, callsLeft, apiKey, callerVars>>

\* a variant that stores the document of the generator as it was cleaned
envelopeOf_generatedReport(st) ==
    [scores |-> st.scores, report |-> cleanReport(st.parsed[1])]

\* riasec_report: { scores: { R, I, A, S, E, C }, report: report }
envelopeOf(st) == [scores |-> st.scores, report |-> st.report[1]]

\* InterpretedResult.update of the row found: the envelope is stored, or an
\* exception is logged; the report is returned either way.
CacheUpdate(p) ==
    /\ gen[p].pc = "update"
    /\ LET st == gen[p]
           envelope == envelopeOf(st)
       IN  /\ gen' = [gen EXCEPT ![p] = returnReport(st, st.report, NoError)]
           /\ \/ /\ interpretedResults' =
                       [interpretedResults EXCEPT
                           ![st.testAttemptId] = <<[riasec_report |-> <<envelope>>]>>]
                 /\ cacheWrites' = Append(cacheWrites,
                                          [caller |-> p,
                                           test_attempt_id |-> st.testAttemptId,
                                           riasec_report |-> envelope])
              \/ UNCHANGED <<interpretedResults, cacheWrites>>
    /\ UNCHANGED <<scoringVars, callsLeft, apiKey, callerVars>>

ReportNext ==
    \E p \in Procs : Generate(p) \/ Post(p) \/ CacheFindOne(p) \/ CacheUpdate(p)

(***************************************************************************)
(* The result routes: GET /:test_attempt_id and GET / of the student, and  *)
(* the two views of the admin.  Each looks for the row of the attempt and  *)
(* its riasec_report, and calls calculateRIASECScores and then             *)
(* generateRIASECReport when the row holds none.  GET / does so for each   *)
(* attempt of the student in turn.                                         *)
(***************************************************************************)
Routes == {"student result", "student results", "admin full view", "admin view"}

\* todo: the attempts still to serve, the first being served; found: the
\* rows InterpretedResult.findOne gave the request; calls and generated: the
\* attempts it called calculateRIASECScores and generateRIASECReport for;
\* results: what it answers with; each oldest first; served: the requests
\* the same client was answered before this one
IdleRequest ==
    [pc |-> "idle", route |-> "none", todo |-> <<>>, found |-> <<>>,
     calls |-> <<>>, generated |-> <<>>, results |-> <<>>, status |-> 0,
     served |-> 0]

OffRequest == [IdleRequest EXCEPT !.pc = "off"]

IdleScript == [pc |-> "idle", questions |-> <<>>, i |-> 0]
OffScript == [IdleScript EXCEPT !.pc = "off"]

\* the attempt is done with: the response, or the next attempt of the list
nextAttempt(st) ==
    LET rest == [st EXCEPT !.todo = Tail(@)]
    IN  IF rest.todo = <<>> THEN [rest EXCEPT !.pc = "responded", !.status = 200]
        ELSE [rest EXCEPT !.pc = "find"]

\* riasec_report: riasecReport of the entry of the attempt
withResult(st, riasecReport) ==
    nextAttempt([st EXCEPT !.results =
                    Append(@, [test_attempt_id |-> Head(st.todo),
                               riasec_report |-> riasecReport])])

\* a variant that never reads the riasec_report of the row
findResult_recomputes(st, row) ==
    IF row = <<>>
    THEN IF st.route = "student results" THEN nextAttempt(st)
         ELSE [st EXCEPT !.pc = "responded", !.status = 404]
    ELSE [st EXCEPT !.pc = "scoring", !.calls = Append(@, Head(st.todo))]

\* from the query of the row to the call of calculateRIASECScores: no row
\* is a 404 (a skipped attempt in GET /), the riasec_report of the row is
\* the answer when it holds one
findResult(st, row) ==
    IF row = <<>>
    THEN IF st.route = "student results" THEN nextAttempt(st)
         ELSE [st EXCEPT !.pc = "responded", !.status = 404]
    ELSE IF row[1].riasec_report # <<>>
    THEN LET cachedReport == row[1].riasec_report[1]
         IN  withResult(st, <<[scores |-> cachedReport.scores,
                               report |-> cachedReport.report]>>)
    ELSE [st EXCEPT !.pc = "scoring", !.calls = Append(@, Head(st.todo))]

\* A request arrives on one of routes.
RequestFrom(p, routes) ==
    /\ requests[p].pc = "idle"
    /\ \E route \in routes, a \in Attempts :
          requests' = [requests EXCEPT ![p] =
                          [IdleRequest EXCEPT
                              !.pc = "find", !.route = route,
                              !.todo = IF route = "student results"
                                       THEN [i \in 1..MaxAttempts |-> i]
                                       ELSE <<a>>]]
    /\ UNCHANGED <<scoringVars, reportVars, callsLeft, script>>

Request(p) == RequestFrom(p, Routes)

\* A client that has its response sends the request again: a handler with
\* fresh locals on the same route and attempt.
RequestAgain(p) ==
    /\ requests[p].pc = "responded"
    /\ requests[p].served + 1 < MaxRequests
    /\ requests' = [requests EXCEPT ![p] =
                        [IdleRequest EXCEPT
                            !.pc = "find", !.route = requests[p].route,
                            !.todo = IF requests[p].route = "student results"
                                     THEN [i \in 1..MaxAttempts |-> i]
                                     ELSE <<requests[p].found[1].test_attempt_id>>,
                            !.served = requests[p].served + 1]]
    /\ UNCHANGED <<scoringVars, reportVars, callsLeft, script>>

\* The query of the row of the attempt, up to the response or to the call
\* of calculateRIASECScores.
FindResult(p) ==
    /\ requests[p].pc = "find"
    /\ LET a == Head(requests[p].todo)
           row == interpretedResults[a]
           st == findResult([requests[p] EXCEPT
                                !.found = Append(@, [test_attempt_id |-> a,
                                                     row |-> row])],
                            row)
       IN  /\ requests' = [requests EXCEPT ![p] = st]
           /\ IF st.pc = "scoring"
              THEN /\ proc' = [proc EXCEPT ![p] = [IdleProc EXCEPT !.testAttemptId = a]]
                   /\ callsLeft' = [callsLeft EXCEPT ![p] = 1]
              ELSE UNCHANGED <<proc, callsLeft>>
    /\ UNCHANGED <<catalog, questions, answers, returned, updates, reportVars, script>>

\* a variant that calls generateRIASECReport whenever the error is null
AfterScores_onNullErrorAlone(p) ==
    /\ requests[p].pc = "scoring"
    /\ proc[p].pc = "done"
    /\ callsLeft[p] = 0
    /\ LET st == requests[p]
           a == Head(st.todo)
           scores == [c \in Codes |-> ScoreOf(proc[p].result, c)]
       IN  IF proc[p].result.error = NoError
           THEN /\ gen' = [gen EXCEPT ![p] = startGenerate(scores, {}, a)]
                /\ requests' = [requests EXCEPT ![p] =
                                    [st EXCEPT !.pc = "generating",
                                               !.generated = Append(@, a)]]
           ELSE /\ requests' = [requests EXCEPT ![p] = withResult(st, <<>>)]
                /\ UNCHANGED gen
    /\ UNCHANGED <<scoringVars, callsLeft, apiKey, interpretedResults, cacheWrites,
                   script>>

\* calculateRIASECScores has returned: generateRIASECReport is called when
\* the error is null and a score is above 0.
AfterScores(p) ==
    /\ requests[p].pc = "scoring"
    /\ proc[p].pc = "done"
    /\ callsLeft[p] = 0
    /\ LET st == requests[p]
           a == Head(st.todo)
           scores == [c \in Codes |-> ScoreOf(proc[p].result, c)]
       IN  IF proc[p].result.error = NoError /\ \E c \in Codes : scores[c] > 0
           THEN /\ gen' = [gen EXCEPT ![p] = startGenerate(scores, {}, a)]
                /\ requests' = [requests EXCEPT ![p] =
                                    [st EXCEPT !.pc = "generating",
                                               !.generated = Append(@, a)]]
           ELSE /\ requests' = [requests EXCEPT ![p] = withResult(st, <<>>)]
                /\ UNCHANGED gen
    /\ UNCHANGED <<scoringVars, callsLeft, apiKey, interpretedResults, cacheWrites,
                   script>>

\* generateRIASECReport has returned: its report is the answer when the
\* error is null.
Respond(p) ==
    /\ requests[p].pc = "generating"
    /\ gen[p].pc = "returned"
    /\ LET st == requests[p]
           result == gen[p].result
           riasecReport ==
               IF result.error = NoError /\ result.report # <<>>
               THEN <<[scores |-> gen[p].scores, report |-> result.report[1]]>>
               ELSE <<>>
       IN  requests' = [requests EXCEPT ![p] = withResult(st, riasecReport)]
    /\ UNCHANGED <<scoringVars, reportVars, callsLeft, script>>

\* The generator answers with the document of the prompt, with a document
\* of another decision risk, or the call is refused.
RouteOutcomes ==
    {resolved(<<[parts |-> <<<<name>>>>, blocked |-> FALSE]>>) :
        name \in {"echo", "risk"}}
    \cup {thrown("response", 400, "")}

RoutesNext ==
    \E p \in Procs :
        \/ Request(p) \/ FindResult(p)
        \/ Begin(p) \/ WriteCategory(p) \/ Reload(p) \/ Score(p)
        \/ AfterScores(p)
        \/ PostFrom(p, RouteOutcomes) \/ CacheFindOne(p) \/ CacheUpdate(p)
        \/ Respond(p)

(***************************************************************************)
(* The script assignRIASECCategories                                       *)
(***************************************************************************)
\* Section.findOne and Question.findAll: the questions of section 5 as the
\* script loaded them, in their order; the script ends when the catalog has
\* no section 5 or the section no question.
RunScript ==
    /\ script.pc \in {"idle", "done", "failed"}
    /\ LET ids == {q \in DOMAIN questions : questions[q].section = 5}
           loaded == SelectSeq([q \in 1..Len(questions) |->
                                   [id |-> q, category |-> questions[q].category]],
                               LAMBDA row : row.id \in ids)
       IN  script' = IF 5 \notin catalog \/ loaded = <<>>
                     THEN [IdleScript EXCEPT !.pc = "done"]
                     ELSE [pc |-> "assign", questions |-> loaded, i |-> 0]
    /\ UNCHANGED <<scoringVars, reportVars, callsLeft, requests>>

\* One iteration of the loop: the question at i gets the code at i of the
\* cycle R I A S E C unless the category it was loaded with is a valid code;
\* question.update succeeds, or throws and ends the script.
AssignCategory ==
    /\ script.pc = "assign"
    /\ LET question == script.questions[script.i + 1]
           riasecCode == riasecCodes[(script.i % Len(riasecCodes)) + 1]
           next == [script EXCEPT !.i = @ + 1,
                                  !.pc = IF script.i + 1 = Len(script.questions)
                                         THEN "done" ELSE "assign"]
       IN  IF ~hasRiasecCategory(question.category)
           THEN \/ /\ questions' = [questions EXCEPT
                                        ![question.id].category = <<riasecCode>>]
                   /\ script' = next
                \/ /\ script' = [script EXCEPT !.pc = "failed"]
                   /\ UNCHANGED questions
           ELSE /\ script' = next
                /\ UNCHANGED questions
    /\ UNCHANGED <<catalog, answers, proc, returned, updates, reportVars, callsLeft,
                   requests>>

(***************************************************************************)
(* The store a run starts from                                             *)
(***************************************************************************)
AllOrders == 1..10

\* The text of an answer that was not given.
ABSENT == <<"ABSENT">>

\* The questions table holds the questions of the dimension sections (the
\* join of the answers query never reads another one): n of them, and none
\* when the catalog has none of their sections.  A profile is a question row
\* with the text attempt 1 answered it with, or ABSENT; the other attempts
\* answered nothing.
InitStore(catalogs, n, profiles) ==
    /\ catalog \in catalogs
    /\ LET usable == {pr \in profiles : pr.section \in catalog}
           ids == IF usable = {} THEN {} ELSE 1..n
       IN  \E rows \in [ids -> usable] :
              /\ questions = [q \in ids |->
                                [section |-> rows[q].section,
                                 question_type |-> rows[q].question_type,
                                 category |-> rows[q].category]]
              /\ answers = [a \in Attempts |->
                              IF a = 1
                              THEN [q \in {i \in ids : rows[i].answer_text # ABSENT} |->
                                      rows[q].answer_text]
                              ELSE <<>>]
    /\ updates = <<>>

\* One caller, process 1, that calls the function on attempt 1 calls times.
InitOneCaller(calls) ==
    /\ proc = [p \in Procs |->
                 IF p = 1 THEN [IdleProc EXCEPT !.testAttemptId = 1] ELSE OffProc]
    /\ callsLeft = [p \in Procs |-> IF p = 1 THEN calls ELSE 0]
    /\ returned = [p \in Procs |-> <<>>]

\* No report is composed: no key, no row, no call of generateRIASECReport.
NoReports ==
    /\ apiKey = NULL
    /\ interpretedResults = [a \in Attempts |-> <<>>]
    /\ gen = [p \in Procs |-> OffGen]
    /\ cacheWrites = <<>>

\* No request is served and the script does not run.
NoCallers ==
    /\ requests = [p \in Procs |-> OffRequest]
    /\ script = OffScript

ScoringNext ==
    \E p \in Procs : Begin(p) \/ WriteCategory(p) \/ Reload(p) \/ Score(p)

(***************************************************************************)
(* Spec: the self-healing pass over MaxRuns calls in a row.  Catalogs with *)
(* all, none or all but one of the six dimension sections; categories      *)
(* null, valid only after trimming and upper-casing, and invalid.          *)
(***************************************************************************)
HealCatalogs == {AllOrders, 1..4, AllOrders \ {6}}
HealProfiles ==
    [section : {5, 6},
     question_type : {"LIKERT_SCALE"},
     category : {NULL, <<" ", "i", " ">>, <<"X">>},
     answer_text : {<<"E">>, ABSENT}]

Init ==
    /\ InitStore(HealCatalogs, MaxQuestions, HealProfiles)
    /\ InitOneCaller(MaxRuns)
    /\ NoReports
    /\ NoCallers

Next == ScoringNext

Spec == Init /\ [][Next]_vars

(***************************************************************************)
(* SpecScoring: one call, the scoring pass and the normalisation in depth. *)
(* Up to MaxValueQuestions answers, most of them in the one dimension R:   *)
(* every letter, numbers below and above the scale, a null text, a letter  *)
(* that needs trimming on a question that needs its category, a question   *)
(* of another kind.                                                        *)
(***************************************************************************)
ValueProfiles ==
    [section : {5}, question_type : {"LIKERT_SCALE"}, category : {<<"R">>},
     answer_text : {<<"A">>, <<"B">>, <<"C">>, <<"D">>, <<"E">>, NULL, ABSENT}]
    \cup
    [section : {5}, question_type : {"MULTIPLE_CHOICE"}, category : {<<"R">>},
     answer_text : {<<"7">>, <<"0">>}]
    \cup
    [section : {6}, question_type : {"LIKERT_SCALE"}, category : {NULL},
     answer_text : {<<" ", "e", " ">>}]
    \cup
    [section : {6}, question_type : {"TEXT"}, category : {<<"I">>},
     answer_text : {<<"E">>}]

InitScoring ==
    /\ InitStore({AllOrders, 1..4}, MaxValueQuestions, ValueProfiles)
    /\ InitOneCaller(1)
    /\ NoReports
    /\ NoCallers

SpecScoring == InitScoring /\ [][Next]_vars

(***************************************************************************)
(* SpecAnswers: one call on questions of the three kinds, each answered    *)
(* with a letter of the scale, bare, in lower case or between blanks, with *)
(* another letter, with a number, with a text that is neither, or with the *)
(* empty text; two of the questions still need their category.             *)
(***************************************************************************)
AnswerTexts ==
    {<<"A">>, <<"E">>, <<" ", "e", " ">>, <<"c">>, <<"Z">>, <<"7">>, <<"-", "3">>,
     <<"x">>, <<>>}

AnswerProfiles ==
    [section : {5}, question_type : {"LIKERT_SCALE", "MULTIPLE_CHOICE", "TEXT"},
     category : {<<"R">>}, answer_text : AnswerTexts \cup {ABSENT}]
    \cup
    {[section |-> 5, question_type |-> "LIKERT_SCALE", category |-> NULL,
      answer_text |-> <<"Z">>],
     [section |-> 5, question_type |-> "MULTIPLE_CHOICE", category |-> NULL,
      answer_text |-> <<"x">>]}

InitAnswers ==
    /\ InitStore({AllOrders}, MaxQuestions, AnswerProfiles)
    /\ InitOneCaller(1)
    /\ NoReports
    /\ NoCallers

SpecAnswers == InitAnswers /\ [][Next]_vars

(***************************************************************************)
(* SpecRange: one call on free-choice answers whose text is no letter of   *)
(* the scale: numbers below and above it, signed, with leading space, and  *)
(* the numbers Infinity and -Infinity that parseFloat reads.               *)
(***************************************************************************)
RangeProfiles ==
    [section : {5}, question_type : {"MULTIPLE_CHOICE"}, category : {<<"R">>},
     answer_text : {<<"I", "n", "f", "i", "n", "i", "t", "y">>,
                    <<"-", "I", "n", "f", "i", "n", "i", "t", "y">>,
                    <<"-", "3">>, <<"0">>, <<"3">>, <<" ", "7">>, ABSENT}]
    \cup
    [section : {6}, question_type : {"MULTIPLE_CHOICE"}, category : {NULL},
     answer_text : {<<"9", "9">>, <<"x">>}]

InitRange ==
    /\ InitStore({AllOrders}, MaxValueQuestions, RangeProfiles)
    /\ InitOneCaller(1)
    /\ NoReports
    /\ NoCallers

SpecRange == InitRange /\ [][Next]_vars

(***************************************************************************)
(* SpecReport: one call of generateRIASECReport, with and without a key,   *)
(* a test attempt and a row to cache in, against every answer of the       *)
(* generator.                                                              *)
(***************************************************************************)
InitReport ==
    /\ catalog = AllOrders
    /\ questions = <<>>
    /\ answers = [a \in Attempts |-> <<>>]
    /\ updates = <<>>
    /\ proc = [p \in Procs |-> OffProc]
    /\ returned = [p \in Procs |-> <<>>]
    /\ callsLeft = [p \in Procs |-> IF p = 1 THEN 1 ELSE 0]
    /\ apiKey \in {NULL, <<" ">>, <<"k">>}
    /\ interpretedResults \in [Attempts -> {<<>>, <<[riasec_report |-> <<>>]>>}]
    /\ gen = [p \in Procs |-> IF p = 1 THEN IdleGen ELSE OffGen]
    /\ cacheWrites = <<>>
    /\ NoCallers

SpecReport == InitReport /\ [][ReportNext]_vars

\* axios.post ends within its timeout of 60 seconds, the delay before a
\* retry is at most 8 seconds, and the queries of the cache end: a call
\* that can take a step takes it.
SpecReportFair ==
    /\ SpecReport
    /\ \A p \in Procs :
          WF_vars(Post(p)) /\ WF_vars(CacheFindOne(p)) /\ WF_vars(CacheUpdate(p))

(***************************************************************************)
(* SpecSections: one call of generateRIASECReport with a key and without a *)
(* test attempt, the sections the function computes itself in depth.  The  *)
(* six scores are a shape, six scores in descending order, laid over the   *)
(* codes: the first three on every ordered triple of distinct codes, the   *)
(* last three on the codes left, in the order R I A S E C.  The shapes hold *)
(* ties at every rank, the values next to every threshold of the match    *)
(* levels, of the decision risk and of the confidence, and scores that are *)
(* no whole number; every value is a multiple of a quarter point.          *)
(***************************************************************************)
ScoreShapes ==
    {<<8500, 7000, 1000, 500, 500, 500>>,
     <<4000, 3800, 3600, 2000, 1000, 500>>,
     <<5000, 5000, 5000, 5000, 5000, 5000>>,
     <<10000, 10000, 10000, 10000, 10000, 10000>>,
     <<10000, 0, 0, 0, 0, 0>>,
     <<0, 0, 0, 0, 0, 0>>,
     <<6000, 5000, 4500, 4000, 4000, 4000>>,
     <<6000, 5000, 4500, 4025, 4025, 4025>>,
     <<6000, 5025, 4050, 4000, 1000, 0>>,
     <<6000, 5025, 5000, 5000, 1000, 0>>,
     <<7000, 5500, 4500, 4500, 500, 500>>,
     <<7000, 5525, 4500, 3000, 3000, 500>>,
     <<7000, 5500, 4525, 1500, 1475, 1475>>,
     <<4975, 3475, 2475, 2000, 0, 0>>,
     <<4975, 3000, 2900, 2900, 0, 0>>,
     <<5000, 3000, 2900, 1000, 1000, 0>>,
     <<5000, 5000, 3000, 3000, 1000, 1000>>,
     <<3000, 2975, 1500, 1475, 25, 0>>,
     <<3000, 3000, 0, 0, 0, 0>>,
     <<2975, 2975, 2975, 1500, 1500, 1500>>,
     <<2500, 1000, 1000, 1000, 0, 0>>,
     <<2475, 2400, 1475, 1475, 1475, 50>>,
     <<2000, 2000, 1000, 0, 0, 0>>,
     <<1975, 1950, 1925, 1900, 1875, 1850>>,
     <<3350, 3325, 3275, 3250, 50, 25>>}

\* the scores of shape laid over the codes, first on the triple t
scoresOf(t, shape) ==
    LET rest == SelectSeq(riasecCodes, LAMBDA x : x \notin {t[1], t[2], t[3]})
        order == t \o rest
    IN  [c \in Codes |-> shape[CHOOSE i \in 1..6 : order[i] = c]]

SectionProfiles ==
    {scoresOf(t, shape) :
        t \in {u \in Codes \X Codes \X Codes : Cardinality({u[1], u[2], u[3]}) = 3},
        shape \in ScoreShapes}

\* The generator answers with a document of its own pathways, with the
\* document of the prompt, or the call is refused.
SectionOutcomes ==
    {resolved(<<[parts |-> <<<<name>>>>, blocked |-> FALSE]>>) :
        name \in {"echo", "pathways"}}
    \cup {thrown("response", 400, "")}

InitSections ==
    /\ catalog = AllOrders
    /\ questions = <<>>
    /\ answers = [a \in Attempts |-> <<>>]
    /\ updates = <<>>
    /\ proc = [p \in Procs |-> OffProc]
    /\ returned = [p \in Procs |-> <<>>]
    /\ callsLeft = [p \in Procs |-> IF p = 1 THEN 1 ELSE 0]
    /\ apiKey = <<"k">>
    /\ interpretedResults = [a \in Attempts |-> <<>>]
    /\ gen = [p \in Procs |-> IF p = 1 THEN IdleGen ELSE OffGen]
    /\ cacheWrites = <<>>
    /\ NoCallers

SectionsNext ==
    \E p \in Procs : GenerateFrom(p, SectionProfiles, {0}) \/ PostFrom(p, SectionOutcomes)

SpecSections == InitSections /\ [][SectionsNext]_vars

(***************************************************************************)
(* SpecRoutes: result requests served side by side, each process one       *)
(* request.  One question of section 5, with or without its category,      *)
(* answered with the highest letter, with the lowest (six zeros) or not at *)
(* all; the row of an attempt is missing, holds no riasec_report, or holds *)
(* the envelope of an earlier composition.                                 *)
(***************************************************************************)
RouteProfiles ==
    [section : {5}, question_type : {"LIKERT_SCALE"}, category : {NULL, <<"R">>},
     answer_text : {<<"E">>, <<"A">>, ABSENT}]

\* the envelope a composition on the scores stored
storedEnvelope(scores) ==
    [scores |-> scores,
     report |-> withCareerPathways(
                    cleanReport(documentOf("echo", promptOf(scores))),
                    calculateCareerPathways(top3Codes(scores), scores))]

InitRoutes ==
    /\ InitStore({AllOrders}, 1, RouteProfiles)
    /\ proc = [p \in Procs |-> OffProc]
    /\ callsLeft = [p \in Procs |-> 0]
    /\ returned = [p \in Procs |-> <<>>]
    /\ apiKey = <<"k">>
    /\ interpretedResults \in
          [Attempts -> {<<>>, <<[riasec_report |-> <<>>]>>,
                        <<[riasec_report |->
                             <<storedEnvelope([R |-> 5000, I |-> 2500, A |-> 0,
                                               S |-> 0, E |-> 0, C |-> 0])>>]>>}]
    /\ gen = [p \in Procs |-> OffGen]
    /\ cacheWrites = <<>>
    /\ requests = [p \in Procs |-> IdleRequest]
    /\ script = OffScript

SpecRoutes == InitRoutes /\ [][RoutesNext]_vars

(***************************************************************************)
(* SpecRace: requests GET /:test_attempt_id side by side on rows that hold  *)
(* no envelope yet, each client sending its request up to MaxRequests      *)
(* times in a row.                                                         *)
(***************************************************************************)
InitRace ==
    /\ InitRoutes
    /\ \A a \in Attempts : interpretedResults[a] = <<[riasec_report |-> <<>>]>>

RaceNext ==
    \E p \in Procs :
        \/ RequestFrom(p, {"student result"}) \/ RequestAgain(p) \/ FindResult(p)
        \/ Begin(p) \/ WriteCategory(p) \/ Reload(p) \/ Score(p)
        \/ AfterScores(p)
        \/ PostFrom(p, RouteOutcomes) \/ CacheFindOne(p) \/ CacheUpdate(p)
        \/ Respond(p)

SpecRace == InitRace /\ [][RaceNext]_vars

(***************************************************************************)
(* SpecCategories: calls of calculateRIASECScores and runs of the script   *)
(* assignRIASECCategories in any order, on questions of sections 5 and 6   *)
(* whose category is null or the code of their section.                    *)
(***************************************************************************)
CategoryProfiles ==
    {pr \in [section : {5, 6}, question_type : {"LIKERT_SCALE"},
             category : {NULL, <<"R">>, <<"I">>}, answer_text : {<<"E">>, ABSENT}] :
        pr.category \in {NULL, <<orderToRIASEC(pr.section)>>}}

InitCategories ==
    /\ InitStore({AllOrders, AllOrders \ {5}}, MaxQuestions, CategoryProfiles)
    /\ InitOneCaller(MaxRuns)
    /\ NoReports
    /\ requests = [p \in Procs |-> OffRequest]
    /\ script = IdleScript

CategoriesNext == ScoringNext \/ RunScript \/ AssignCategory

SpecCategories == InitCategories /\ [][CategoriesNext]_vars

(***************************************************************************)
(* SpecConcurrent: every process calls calculateRIASECScores once on the   *)
(* same attempt, the calls running side by side on the questions of        *)
(* SpecCategories.                                                         *)
(***************************************************************************)
InitConcurrent ==
    /\ InitStore({AllOrders}, MaxQuestions, CategoryProfiles)
    /\ proc = [p \in Procs |-> [IdleProc EXCEPT !.testAttemptId = 1]]
    /\ callsLeft = [p \in Procs |-> 1]
    /\ returned = [p \in Procs |-> <<>>]
    /\ NoReports
    /\ NoCallers

SpecConcurrent == InitConcurrent /\ [][ScoringNext]_vars

(***************************************************************************)
(* Properties of calculateRIASECScores                                     *)
(***************************************************************************)
Done(p) == proc[p].pc = "done"

AllZero(result) == \A c \in Codes : ScoreOf(result, c) = 0

\* The attempt of p has no answer to a question of a dimension section.
NoDimensionAnswers(p) ==
    \A q \in DOMAIN answers[proc[p].testAttemptId] :
        questions[q].section \notin RiasecOrders

\* The Question.update calls of the call of p that is running or just ended.
UpdatesOfCall(p) ==
    {i \in DOMAIN updates :
        /\ updates[i].caller = p
        /\ updates[i].call = IF Done(p) THEN Len(returned[p]) ELSE Len(returned[p]) + 1}

\* The answer of question id was accumulated under code in the call of p.
CountedUnder(p, id, code) ==
    \E j \in DOMAIN proc[p].processed :
        /\ proc[p].processed[j].id = id
        /\ proc[p].processed[j].category = code

\* C4: whenever the catalog does not hold all six dimension sections, also
\* when it holds some of them, the call returns six zeros and an error.
C4_IncompleteCatalogFails ==
    \A p \in Procs :
        Done(p) /\ ~(RiasecOrders \subseteq catalog)
        => AllZero(proc[p].result) /\ proc[p].result.error # NoError

\* C5: when the attempt has no answer to a question of the sections 5..10,
\* the call returns (it does not throw) six zeros with an error, and the
\* store received no Question.update from it.
C5_NoAnswersIsAnErrorResult ==
    \A p \in Procs :
        Done(p) /\ NoDimensionAnswers(p)
        => /\ proc[p].outcome = "returned"
           /\ AllZero(proc[p].result)
           /\ proc[p].result.error # NoError
           /\ UpdatesOfCall(p) = {}

\* C5 happens: the catalog has dimension sections, a question of one of them
\* lacks a valid category, the attempt answered nothing, and the call ended
\* with the no-answers error.
C5_Witness ==
    \E p \in Procs :
        /\ Done(p)
        /\ NoDimensionAnswers(p)
        /\ \E q \in DOMAIN questions : ~hasRiasecCategory(questions[q].category)
        /\ proc[p].result.error = ErrNoAnswers

C7_MissingCategoryHealedAndCounted ==
    \A p \in Procs :
        Done(p) /\ proc[p].raised = "none"
        => \A i \in DOMAIN proc[p].questionIdsToUpdate :
              LET id == proc[p].questionIdsToUpdate[i].id
                  code == orderToRIASEC(questions[id].section)
              IN  /\ questions[id].category = <<code>>
                  /\ CountedUnder(p, id, code)

\* C8: when a call ends without an exception, the answer of every question
\* whose category write failed was accumulated under the code of the
\* question's section in this call.
C8_FailedWriteStillCounted ==
    \A p \in Procs :
        Done(p) /\ proc[p].raised = "none"
        => \A id \in proc[p].failedUpdates :
              CountedUnder(p, id, orderToRIASEC(questions[id].section))

\* C9: two calls in a row on the same attempt, neither of them ended by an
\* exception, return the same six scores and the same error.
C9_SecondCallReturnsTheSame ==
    \A p \in Procs :
        /\ Len(returned[p]) >= 2
        /\ returned[p][1].raised = "none"
        /\ returned[p][2].raised = "none"
        => returned[p][1].result = returned[p][2].result

\* s is (total/count - 1) / 4 * 100 in hundredths, rounded to the nearest
\* hundredth (a half going up) and clamped to 0..10000: with
\* x = 2500 * (total - count) / count, twice is 2 * count * (x + 1/2).
IsNormalised(total, count, s) ==
    LET twice == 5000 * (total - count) + count
    IN  IF twice < 0 THEN s = 0
        ELSE IF twice >= 2 * count * 10000 THEN s = 10000
        ELSE 2 * count * s <= twice /\ twice < 2 * count * (s + 1)

LetterPercent ==
    ("A" :> 0) @@ ("B" :> 2500) @@ ("C" :> 5000) @@ ("D" :> 7500) @@ ("E" :> 10000)

\* C10: in the result of a call, the score of every dimension that
\* accumulated an answer is ((sum/count - 1) / 4) * 100, clamped to 0..100
\* and rounded to two decimals; a dimension whose only answer has the value
\* v in 1..5 scores (v - 1) * 25 exactly; and a dimension whose only answer
\* is, trimmed and upper-cased, the letter A, B, C, D or E of a 5-point or
\* free-choice question scores 0, 25, 50, 75 or 100.
C10_ScoreIsNormalisedAverage ==
    \A p \in Procs :
        Done(p)
        => \A c \in Codes :
              LET data == proc[p].riasecScores[c]
                  score == ScoreOf(proc[p].result, c)
              IN  data.count > 0
                  => /\ IsNormalised(data.total, data.count, score)
                     /\ data.count = 1 /\ data.total \in 1..5
                        => score = 2500 * (data.total - 1)
                     /\ \A i \in DOMAIN proc[p].answers :
                          LET answer == proc[p].answers[i]
                              letter == toUpperCase(trim(answer.answer_text))
                          IN  /\ data.count = 1
                              /\ CountedUnder(p, answer.question.id, c)
                              /\ answer.question.question_type
                                    \in {"LIKERT_SCALE", "MULTIPLE_CHOICE"}
                              /\ Len(letter) = 1
                              /\ letter[1] \in DOMAIN LetterPercent
                              => score = LetterPercent[letter[1]]

\* C10 happens: a dimension accumulated three answers whose average is not
\* a whole number of hundredths, and the call returned its score.
C10_Witness ==
    \E p \in Procs :
        /\ Done(p)
        /\ proc[p].result.error = NoError
        /\ \E c \in Codes :
              /\ proc[p].riasecScores[c].count = 3
              /\ (2500 * (proc[p].riasecScores[c].total - 3)) % 3 # 0
              /\ ScoreOf(proc[p].result, c) > 0

(***************************************************************************)
(* Properties of generateRIASECReport                                      *)
(***************************************************************************)
Returned(p) == gen[p].pc = "returned"

\* the sections of a report that are functions of the six scores alone
LocalRisk(report, scores) ==
    /\ report.riasecProfile[1].decisionRisk.level = decisionRisk(scores).level
    /\ report.riasecProfile[1].decisionRisk.stability = decisionRisk(scores).stability

LocalTraits(report, scores) == report.riasecProfile[1].topTraits = topTraits(scores)

LocalMatchLevels(report, scores) ==
    \A i \in DOMAIN report.dimensions.items :
        report.dimensions.items[i].matchLevel
            = getMatchLevel(scores[report.dimensions.items[i].code])

LocalPathways(report, scores) ==
    report.careerPathways = calculateCareerPathways(top3Codes(scores), scores)

\* C1: a call made with six defined scores never returns a null report; when
\* the generator gave no usable document (no key, an HTTP or network error,
\* a timeout, an empty, unparseable or invalid answer), the report returned
\* holds the decision risk, the top traits, the match levels and the career
\* pathways computed from the scores.
C1_ReportWithoutGenerator ==
    \A p \in Procs :
        Returned(p) /\ gen[p].undefinedCodes = {}
        => /\ gen[p].result.report # <<>>
           /\ gen[p].parsed = <<>>
              => /\ LocalRisk(gen[p].result.report[1], gen[p].scores)
                 /\ LocalTraits(gen[p].result.report[1], gen[p].scores)
                 /\ LocalMatchLevels(gen[p].result.report[1], gen[p].scores)
                 /\ LocalPathways(gen[p].result.report[1], gen[p].scores)

\* C2: in every report returned, the decision-risk level and stability, the
\* top traits and the match level of every dimension are the values computed
\* from the six scores of the call, whatever the generator's JSON held.
C2_LocalSectionsNotReplaced ==
    \A p \in Procs :
        Returned(p) /\ gen[p].result.report # <<>>
        => /\ LocalRisk(gen[p].result.report[1], gen[p].scores)
           /\ LocalTraits(gen[p].result.report[1], gen[p].scores)
           /\ LocalMatchLevels(gen[p].result.report[1], gen[p].scores)

\* C3: the careerPathways of every report returned, of every envelope handed
\* to InterpretedResult.update and of every envelope in the cache is the
\* list calculateCareerPathways gives for the top-3 codes and the six scores
\* of that report.
C3_PathwaysComputedLocally ==
    /\ \A p \in Procs :
          Returned(p) /\ gen[p].result.report # <<>>
          => LocalPathways(gen[p].result.report[1], gen[p].scores)
    /\ \A i \in DOMAIN cacheWrites :
          LocalPathways(cacheWrites[i].riasec_report.report,
                        cacheWrites[i].riasec_report.scores)
    /\ \A a \in Attempts :
          interpretedResults[a] # <<>> /\ interpretedResults[a][1].riasec_report # <<>>
          => LocalPathways(interpretedResults[a][1].riasec_report[1].report,
                           interpretedResults[a][1].riasec_report[1].scores)

\* C3 happens: the generator's JSON held a careerPathways field of its own,
\* and the call cached an envelope and returned a report.
C3_Witness ==
    \E p \in Procs :
        /\ Returned(p)
        /\ gen[p].result.report # <<>>
        /\ gen[p].parsed # <<>>
        /\ gen[p].parsed[1].careerPathways # <<>>
        /\ \E i \in DOMAIN cacheWrites :
              /\ cacheWrites[i].caller = p
              /\ cacheWrites[i].riasec_report.report = gen[p].result.report[1]


(***************************************************************************)
(* Claims on the range of the scores                                       *)
(***************************************************************************)
InRange(score) == score >= 0 /\ score <= 10000

\* C11: every score a call returns is a number between 0 and 100, whatever
\* the answers are, free-choice texts that parse to numbers outside 1..5
\* included.
C11_ScoresWithinRange ==
    \A p \in Procs :
        Done(p) => \A c \in Codes : InRange(ScoreOf(proc[p].result, c))

\* An average below 1 gives 0 and an average above 5 gives 100, as long as
\* the sum of the values is a number.
C11_FiniteAveragesAreClamped ==
    \A p \in Procs : \A c \in Codes :
        LET data == proc[p].riasecScores[c]
        IN  Done(p) /\ proc[p].result.error = NoError /\ data.count > 0
                    /\ data.nonFinite # "NaN"
            => /\ InRange(ScoreOf(proc[p].result, c))
               /\ data.nonFinite = "none" /\ data.total < data.count
                    => ScoreOf(proc[p].result, c) = 0
               /\ data.nonFinite = "none" /\ data.total > 5 * data.count
                    => ScoreOf(proc[p].result, c) = 10000

(***************************************************************************)
(* Claims on the sections generateRIASECReport computes itself             *)
(***************************************************************************)
\* the call of p has passed the statements before the retry loop
Ranked(p) == gen[p].sortedScores # <<>>

\* the code letters in alphabetical order
Alphabet == <<"A", "C", "E", "I", "R", "S">>

LetterBefore(a, b) ==
    \E i, j \in DOMAIN Alphabet : i < j /\ Alphabet[i] = a /\ Alphabet[j] = b

\* C12: the ranking holds each of the six codes once with its score, a pair
\* goes before another when its score is higher or the scores are equal and
\* its letter comes first in the alphabet; topTraits is the first three
\* pairs in that order, and the last pair holds the lowest score of the six.
C12_RankingIsTotalOrder ==
    \A p \in Procs :
        Ranked(p) =>
            LET sorted == gen[p].sortedScores
                scores == gen[p].scores
                traits == gen[p].prompt[1].topTraits
            IN  /\ Len(sorted) = 6
                /\ {sorted[i].code : i \in 1..6} = Codes
                /\ \A i \in 1..6 : sorted[i].score = scores[sorted[i].code]
                /\ \A i, j \in 1..6 :
                      i < j => \/ sorted[i].score > sorted[j].score
                               \/ /\ sorted[i].score = sorted[j].score
                                  /\ LetterBefore(sorted[i].code, sorted[j].code)
                /\ Len(traits) = 3
                /\ \A i \in 1..3 : traits[i].code = sorted[i].code
                /\ \A c \in Codes : sorted[6].score <= scores[c]

\* Equal scores inside the first three, on letters whose alphabetical order
\* is not the order R I A S E C, and equal scores across the third rank.
C12_Witness ==
    \E p \in Procs :
        /\ Ranked(p)
        /\ LET sorted == gen[p].sortedScores
           IN  /\ sorted[1].score = sorted[2].score
               /\ sorted[1].code = "I" /\ sorted[2].code = "R"
               /\ sorted[3].score = sorted[4].score
               /\ sorted[3].code = "A" /\ sorted[4].code = "S"
               /\ sorted[2].score > sorted[3].score

\* C13: the match level of a dimension is HIGH MATCH when its own score is
\* at least 30, MODERATE MATCH when it is at least 15 and below 30, and LOW
\* MATCH when it is below 15.
C13_MatchLevelByOwnScore ==
    \A p \in Procs :
        Ranked(p) =>
            LET scores == gen[p].scores
                dimensions == gen[p].prompt[1].dimensions
            IN  \A i \in DOMAIN dimensions :
                    LET own == scores[dimensions[i].code]
                        level == dimensions[i].matchLevel
                    IN  /\ level \in {"HIGH MATCH", "MODERATE MATCH", "LOW MATCH"}
                        /\ level = "HIGH MATCH" <=> own >= 3000
                        /\ level = "MODERATE MATCH" <=> (own >= 1500 /\ own < 3000)
                        /\ level = "LOW MATCH" <=> own < 1500

\* Scores of exactly 30 and 15, and scores a quarter point below them.
C13_Witness ==
    \E p \in Procs :
        /\ Ranked(p)
        /\ LET dimensions == gen[p].prompt[1].dimensions
               levelAt(own) ==
                   {dimensions[i].matchLevel :
                       i \in {k \in DOMAIN dimensions :
                                gen[p].scores[dimensions[k].code] = own}}
           IN  /\ levelAt(3000) = {"HIGH MATCH"}
               /\ levelAt(2975) = {"MODERATE MATCH"}
               /\ levelAt(1500) = {"MODERATE MATCH"}
               /\ levelAt(1475) = {"LOW MATCH"}

\* the highest of the scores but those of the codes of except
HighestBut(scores, except) ==
    CHOOSE s \in {scores[c] : c \in Codes \ except} :
        \A c \in Codes \ except : scores[c] <= s

\* C14: with top, second and third the three highest scores and lowest the
\* lowest of the six, the decision risk is Moderate Risk / Developing when
\* top - second < 10 and second - third < 10; else Low Risk / Highly Stable
\* when top - second >= 15 and second - third >= 10; else High Risk /
\* Developing when top < 50 or top - lowest < 20; else Moderate Risk /
\* Moderately Stable.
C14_DecisionRiskRulesInOrder ==
    \A p \in Procs :
        Ranked(p) =>
            LET scores == gen[p].scores
                sorted == gen[p].sortedScores
                top == HighestBut(scores, {})
                second == HighestBut(scores, {sorted[1].code})
                third == HighestBut(scores, {sorted[1].code, sorted[2].code})
                lowest == CHOOSE s \in {scores[c] : c \in Codes} :
                              \A c \in Codes : s <= scores[c]
                rule1 == top - second < 1000 /\ second - third < 1000
                rule2 == top - second >= 1500 /\ second - third >= 1000
                rule3 == top < 5000 \/ top - lowest < 2000
                risk == gen[p].prompt[1].decisionRisk
            IN  /\ rule1 => risk = [level |-> "Moderate Risk", stability |-> "Developing"]
                /\ ~rule1 /\ rule2
                     => risk = [level |-> "Low Risk", stability |-> "Highly Stable"]
                /\ ~rule1 /\ ~rule2 /\ rule3
                     => risk = [level |-> "High Risk", stability |-> "Developing"]
                /\ ~rule1 /\ ~rule2 /\ ~rule3
                     => risk = [level |-> "Moderate Risk", stability |-> "Moderately Stable"]

\* The profile R=40, I=38, A=36, S=20, E=10, C=5, which satisfies the first
\* rule and the third, classified.
C14_Witness ==
    \E p \in Procs :
        /\ Ranked(p)
        /\ gen[p].scores = [R |-> 4000, I |-> 3800, A |-> 3600,
                            S |-> 2000, E |-> 1000, C |-> 500]
        /\ gen[p].prompt[1].decisionRisk =
               [level |-> "Moderate Risk", stability |-> "Developing"]

\* the call of p has composed a report
Composed(p) == gen[p].report # <<>>

\* C15: whatever the three top codes and the six scores are, the pathways
\* of a report are exactly five entries, no two of them with the same degree,
\* none with a blank degree, each with the confidence level HIGH, MODERATE
\* or LOW.
C15_FiveDistinctPathways ==
    \A p \in Procs :
        Composed(p) =>
            LET pathways == gen[p].report[1].careerPathways
            IN  /\ Len(pathways) = 5
                /\ \A i, j \in DOMAIN pathways :
                      i # j => pathways[i].degree # pathways[j].degree
                /\ \A i \in DOMAIN pathways :
                      /\ pathways[i].degree # ""
                      /\ pathways[i].confidenceLevel \in {"HIGH", "MODERATE", "LOW"}

\* A report on three top codes whose three pairs give one role only and
\* whose six ordered pairs give three degrees only.
C15_Witness ==
    \E p \in Procs :
        /\ Composed(p)
        /\ LET t == [i \in 1..3 |-> gen[p].sortedScores[i].code]
               pairs == {<<1, 2>>, <<1, 3>>, <<2, 3>>}
           IN  /\ Cardinality({calculateRole(t[pr[1]], t[pr[2]]) : pr \in pairs}) = 1
               /\ Cardinality({calculateDegree(t[pr[1]], t[pr[2]]) : pr \in pairs}
                               \cup {calculateDegree(t[pr[2]], t[pr[1]]) : pr \in pairs})
                    = 3
               /\ Len(gen[p].report[1].careerPathways) = 5

\* C16: every pathway of a report carries the three top codes in rank order
\* as its mix; its primary code has rank 0, its secondary code rank 1, all
\* its codes are top codes, its score fit is 1 when the top scores average
\* one point or more, and its gap penalty is 0.  The ordered rules then give
\* HIGH when the top score is at least 30, else MODERATE when it is at least
\* 25 (second rule) or at least 20 (third rule), else LOW.
C16_ConfidenceByOrderedRules ==
    \A p \in Procs :
        Composed(p) =>
            LET pathways == gen[p].report[1].careerPathways
                sorted == gen[p].sortedScores
                primaryScore == sorted[1].score
            IN  \A i \in DOMAIN pathways :
                    /\ pathways[i].riasecMix =
                          <<sorted[1].code, "-", sorted[2].code, "-", sorted[3].code>>
                    /\ primaryScore >= 3000
                         => /\ pathways[i].confidenceLevel = "HIGH"
                            /\ pathways[i].confidence = "High Confidence"
                    /\ primaryScore >= 2000 /\ primaryScore < 3000
                         => /\ pathways[i].confidenceLevel = "MODERATE"
                            /\ pathways[i].confidence = "Moderate Confidence"
                    /\ primaryScore < 2000
                         => /\ pathways[i].confidenceLevel = "LOW"
                            /\ pathways[i].confidence = "Low Confidence"

\* The profile R=85, I=70, A=10, S=E=C=5: the mix R-I-A with HIGH.
C16_Witness ==
    \E p \in Procs :
        /\ Composed(p)
        /\ gen[p].scores = [R |-> 8500, I |-> 7000, A |-> 1000,
                            S |-> 500, E |-> 500, C |-> 500]
        /\ \A i \in 1..5 :
              /\ gen[p].report[1].careerPathways[i].riasecMix =
                    <<"R", "-", "I", "-", "A">>
              /\ gen[p].report[1].careerPathways[i].confidenceLevel = "HIGH"

(***************************************************************************)
(* Claims on the cache of generateRIASECReport                             *)
(***************************************************************************)
\* C19: every write of an envelope is made by a call that was given a test
\* attempt and a key, whose generator answered with a document of valid
\* structure, and that returns its report with a null error; the envelope
\* holds the six scores of the call and the report returned, whose
\* careerPathways are those computed from the scores; the row of the
\* attempt holds no envelope but a written one.
C19_EnvelopeOnlyAfterComposition ==
    /\ \A i \in DOMAIN cacheWrites :
          LET w == cacheWrites[i]
              st == gen[w.caller]
          IN  /\ st.testAttemptId = w.test_attempt_id
              /\ st.posts >= 1
              /\ st.parsed # <<>>
              /\ st.parsed[1].riasecProfile # <<>> /\ st.parsed[1].dimensions.isArray
              /\ Returned(w.caller)
              /\ st.result.error = NoError
              /\ st.result.report = <<w.riasec_report.report>>
              /\ w.riasec_report.scores = st.scores
              /\ w.riasec_report.report.careerPathways
                    = calculateCareerPathways(top3Codes(st.scores), st.scores)
    /\ \A a \in Attempts :
          interpretedResults[a] # <<>> /\ interpretedResults[a][1].riasec_report # <<>>
            => \E i \in DOMAIN cacheWrites :
                  /\ cacheWrites[i].test_attempt_id = a
                  /\ interpretedResults[a][1].riasec_report
                        = <<cacheWrites[i].riasec_report>>
    /\ \A p \in Procs :
          Returned(p) /\ gen[p].result.error # NoError
            => \A i \in DOMAIN cacheWrites : cacheWrites[i].caller # p

\* An envelope written after the generator sent pathways of its own, and a
\* call on the same kind of row that returned an error and wrote nothing.
C19_Witness ==
    \E p \in Procs :
        /\ Returned(p)
        /\ gen[p].parsed # <<>>
        /\ gen[p].parsed[1].careerPathways # <<>>
        /\ gen[p].parsed[1].careerPathways
              # calculateCareerPathways(top3Codes(gen[p].scores), gen[p].scores)
        /\ Len(cacheWrites) = 1
        /\ cacheWrites[1].caller = p
        /\ interpretedResults[gen[p].testAttemptId]
              = <<[riasec_report |-> <<cacheWrites[1].riasec_report>>]>>

(***************************************************************************)
(* Claims on the roles and the degrees of the pathways                     *)
(***************************************************************************)
\* the three top codes of the call of p, in rank order
TopCodes(p) == [i \in 1..3 |-> gen[p].sortedScores[i].code]

\* the role-table entries of the pairs (primary, secondary), (primary,
\* tertiary), (secondary, tertiary)
TableRoles(p) ==
    LET t == TopCodes(p)
    IN  <<calculateRole(t[1], t[2]), calculateRole(t[1], t[3]), calculateRole(t[2], t[3])>>

\* the first place of x in seq
Place(seq, x) ==
    CHOOSE i \in DOMAIN seq : seq[i] = x /\ \A j \in 1..(i - 1) : seq[j] # x

\* C27: the roles of the five pathways are pairwise distinct; the first
\* ones are the role-table entries of the pairs (primary, secondary),
\* (primary, tertiary), (secondary, tertiary), each once, in the order of
\* their first pair; the others are roles of the fallback list that are no
\* table entry of the three pairs, in the order of the list, none of the
\* list before them being left out.
C27_RolesFromTableThenFallback ==
    \A p \in Procs :
        Composed(p) =>
            LET pathways == gen[p].report[1].careerPathways
                roles == [i \in DOMAIN pathways |-> pathways[i].careerRole]
                table == TableRoles(p)
                tableSet == {table[i] : i \in DOMAIN table}
                n == Cardinality(tableSet)
            IN  /\ Len(roles) = 5
                /\ \A i, j \in 1..5 : i # j => roles[i] # roles[j]
                /\ roles[1] = table[1]
                /\ {roles[i] : i \in 1..n} = tableSet
                /\ \A i, j \in 1..n :
                      i < j => Place(table, roles[i]) < Place(table, roles[j])
                /\ \A i \in (n + 1)..5 :
                      /\ roles[i] \notin tableSet
                      /\ includes(allRoles, roles[i])
                      /\ \A k \in 1..(Place(allRoles, roles[i]) - 1) :
                            \/ allRoles[k] \in tableSet
                            \/ \E j \in (n + 1)..(i - 1) : roles[j] = allRoles[k]
                /\ \A i, j \in (n + 1)..5 :
                      i < j => Place(allRoles, roles[i]) < Place(allRoles, roles[j])

\* A report whose three pairs give two roles, the first role of the fallback
\* list among them: the third pathway has the second role of the list.
C27_Witness ==
    \E p \in Procs :
        /\ Composed(p)
        /\ LET table == TableRoles(p)
               pathways == gen[p].report[1].careerPathways
           IN  /\ Cardinality({table[i] : i \in DOMAIN table}) = 2
               /\ \E i \in DOMAIN table : table[i] = allRoles[1]
               /\ Len(pathways) = 5
               /\ pathways[3].careerRole = allRoles[2]

\* the pairs of ranks the role table is read for
RolePairs == <<<<1, 2>>, <<1, 3>>, <<2, 3>>>>

\* C28: a pathway whose role is the role-table entry of a pair of top codes
\* has the degree-table entry of that pair as its degree, unless an
\* earlier pathway of the list has that degree.
C28_DegreeOfTheSamePair ==
    \A p \in Procs :
        Composed(p) =>
            LET pathways == gen[p].report[1].careerPathways
                t == TopCodes(p)
                table == TableRoles(p)
            IN  \A i \in DOMAIN pathways :
                    (\E k \in DOMAIN table : table[k] = pathways[i].careerRole)
                    => \E k \in DOMAIN table :
                          LET degree == calculateDegree(t[RolePairs[k][1]],
                                                        t[RolePairs[k][2]])
                          IN  /\ table[k] = pathways[i].careerRole
                              /\ \/ pathways[i].degree = degree
                                 \/ \E j \in 1..(i - 1) : pathways[j].degree = degree

\* The degree agrees with the pair of the role whenever the three pairs
\* give three roles.
C28_HoldsOnThreeRoles ==
    \A p \in Procs :
        Composed(p) /\ Cardinality({TableRoles(p)[k] : k \in 1..3}) = 3
        => \A i \in 1..3 :
              LET degree == calculateDegree(TopCodes(p)[RolePairs[i][1]],
                                            TopCodes(p)[RolePairs[i][2]])
                  pathways == gen[p].report[1].careerPathways
              IN  \/ pathways[i].degree = degree
                  \/ \E j \in 1..(i - 1) : pathways[j].degree = degree

\* the confidence level of a top score, in hundredths
LevelOfTop(top) ==
    IF top >= 3000 THEN "HIGH" ELSE IF top >= 2000 THEN "MODERATE" ELSE "LOW"

\* C29: the five pathways of a report have one and the same mix, the three
\* top codes in rank order, and one and the same confidence, whose level is
\* decided by the top score alone when the six scores are within 0..100:
\* HIGH from 30, MODERATE from 20 to below 30, LOW below 20.
C29_OneMixOneConfidence ==
    \A p \in Procs :
        Composed(p) /\ (\A c \in Codes : gen[p].scores[c] \in 0..10000) =>
            LET pathways == gen[p].report[1].careerPathways
                t == TopCodes(p)
                top == gen[p].scores[t[1]]
            IN  /\ \A c \in Codes : gen[p].scores[c] <= top
                /\ \A i, j \in DOMAIN pathways :
                      /\ pathways[i].riasecMix = pathways[j].riasecMix
                      /\ pathways[i].confidence = pathways[j].confidence
                      /\ pathways[i].confidenceLevel = pathways[j].confidenceLevel
                /\ pathways[1].riasecMix = <<t[1], "-", t[2], "-", t[3]>>
                /\ pathways[1].confidenceLevel = LevelOfTop(top)

\* A report on a top score of exactly 20, shared by two codes, the third
\* score at 10: five pathways of MODERATE confidence.
C29_Witness ==
    \E p \in Procs :
        /\ Composed(p)
        /\ gen[p].sortedScores[1].score = 2000
        /\ gen[p].sortedScores[3].score = 1000
        /\ Len(gen[p].report[1].careerPathways) = 5
        /\ \A i \in 1..5 : gen[p].report[1].careerPathways[i].confidenceLevel = "MODERATE"

(***************************************************************************)
(* Claims on the retry loop                                                *)
(***************************************************************************)
\* HTTP 429, HTTP 5xx, no response, or the timeout of the request
Retryable(error) ==
    \/ error.kind = "response" /\ (error.status = 429 \/ error.status \in 500..599)
    \/ error.kind \in {"request", "timeout"}

\* process p called axios.post in the step and goes on to call it again
Retries(p) ==
    gen'[p].posts = gen[p].posts + 1 /\ gen'[p].pc = "post"

\* C24: a call of generateRIASECReport calls axios.post at most 4 times;
\* a call of axios.post is followed by another only when it was rejected
\* with HTTP 429, HTTP 5xx, without response or on the timeout, in an
\* iteration that is not the last, so that every other rejection and every
\* resolved response, well formed or not, is the last call; the retry
\* leaves the six scores, the ranking, the prompt and everything
\* calculateRIASECScores reads or writes as they are; and a call that
\* entered the loop returns.
C24_BoundedRetries ==
    /\ [](\A p \in Procs : gen[p].posts <= maxRetries + 1 /\ gen[p].posts <= 4)
    /\ [][\A p \in Procs :
            Retries(p)
            => /\ gen[p].attempt < maxRetries
               /\ gen'[p].attempt = gen[p].attempt + 1
               /\ gen'[p].response = <<>>
               /\ gen'[p].lastError # <<>> /\ Retryable(gen'[p].lastError[1])
               /\ gen'[p].scores = gen[p].scores
               /\ gen'[p].sortedScores = gen[p].sortedScores
               /\ gen'[p].prompt = gen[p].prompt
               /\ UNCHANGED <<scoringVars, interpretedResults, cacheWrites>>]_vars
    /\ \A p \in Procs : (gen[p].pc = "post") ~> (gen[p].pc = "returned")

\* A call that returned after 4 calls of axios.post, the last one rejected
\* with a status that is retried in the earlier iterations.
C24_Witness ==
    \E p \in Procs :
        /\ gen[p].pc = "returned"
        /\ gen[p].posts = 4 /\ gen[p].attempt = maxRetries
        /\ gen[p].lastError # <<>> /\ Retryable(gen[p].lastError[1])
        /\ gen[p].result.report = <<>>
        /\ gen[p].result.error \in {ErrRateLimit, ErrServer, ErrNetwork, ErrTimeout}

(***************************************************************************)
(* Claims on the result routes                                             *)
(***************************************************************************)
\* the queries of request p that found an envelope in the row
FoundEnvelope(p) ==
    {i \in DOMAIN requests[p].found :
        /\ requests[p].found[i].row # <<>>
        /\ requests[p].found[i].row[1].riasec_report # <<>>}

\* C17: a request that found an envelope in the row of an attempt, on any
\* of the four routes, answers for that attempt with the scores and the
\* report of that envelope, and for that attempt it has called neither
\* calculateRIASECScores nor generateRIASECReport and has made no category
\* write and no cache write; a request that found an envelope for each of
\* its attempts has called nothing at all.
C17_CacheHitComputesNothing ==
    \A p \in Procs :
        /\ \A i \in FoundEnvelope(p) :
              LET a == requests[p].found[i].test_attempt_id
                  envelope == requests[p].found[i].row[1].riasec_report[1]
              IN  /\ requests[p].route \in Routes
                  /\ \E k \in DOMAIN requests[p].results :
                        /\ requests[p].results[k].test_attempt_id = a
                        /\ requests[p].results[k].riasec_report =
                              <<[scores |-> envelope.scores, report |-> envelope.report]>>
                  /\ \A k \in DOMAIN requests[p].calls : requests[p].calls[k] # a
                  /\ \A k \in DOMAIN requests[p].generated :
                        requests[p].generated[k] # a
                  /\ \A k \in DOMAIN updates :
                        updates[k].caller = p
                          => requests[p].calls[updates[k].call] # a
                  /\ \A k \in DOMAIN cacheWrites :
                        ~(cacheWrites[k].caller = p /\ cacheWrites[k].test_attempt_id = a)
        /\ requests[p].found # <<>> /\ FoundEnvelope(p) = DOMAIN requests[p].found
             => /\ proc[p].pc = "off" /\ gen[p].pc = "off"
                /\ returned[p] = <<>>
                /\ \A k \in DOMAIN updates : updates[k].caller # p
                /\ \A k \in DOMAIN cacheWrites : cacheWrites[k].caller # p

\* A request answered from an envelope that another request wrote.
C17_Witness ==
    \E p \in Procs :
        /\ requests[p].pc = "responded"
        /\ FoundEnvelope(p) # {}
        /\ \E i \in FoundEnvelope(p), k \in DOMAIN cacheWrites :
              /\ cacheWrites[k].caller # p
              /\ requests[p].found[i].row[1].riasec_report
                    = <<cacheWrites[k].riasec_report>>
              /\ requests[p].results[i].riasec_report = <<cacheWrites[k].riasec_report>>
        /\ proc[p].pc = "off" /\ gen[p].pc = "off"

WritesFor(a) == SelectSeq(cacheWrites, LAMBDA w : w.test_attempt_id = a)

\* no request is between its query of the row of a and its answer for a
NoneInFlight(a) ==
    \A p \in Procs :
        requests[p].pc \in {"scoring", "generating"} => Head(requests[p].todo) # a

\* C21: the row of an attempt that was written holds the envelope of the
\* last write, whoever made it; and once no request is computing for the
\* attempt any more, a request that queries its row answers with that
\* envelope, calling neither calculateRIASECScores nor generateRIASECReport
\* and writing nothing.
C21_LastWriteWinsAndIsServed ==
    /\ [](\A a \in Attempts :
            WritesFor(a) # <<>>
              => interpretedResults[a]
                   = <<[riasec_report |->
                          <<WritesFor(a)[Len(WritesFor(a))].riasec_report>>]>>)
    /\ [][\A p \in Procs, a \in Attempts :
            /\ WritesFor(a) # <<>> /\ NoneInFlight(a)
            /\ requests[p].pc = "find" /\ Head(requests[p].todo) = a
            /\ requests'[p] # requests[p]
            => /\ requests'[p].results =
                     Append(requests[p].results,
                            [test_attempt_id |-> a,
                             riasec_report |->
                                <<WritesFor(a)[Len(WritesFor(a))].riasec_report>>])
               /\ requests'[p].calls = requests[p].calls
               /\ requests'[p].generated = requests[p].generated
               /\ requests'[p].pc \notin {"scoring", "generating"}
               /\ UNCHANGED <<proc, gen, returned, updates, interpretedResults,
                              cacheWrites>>]_vars

\* Two requests found the row of the attempt without envelope; both called
\* calculateRIASECScores and generateRIASECReport and both stored an
\* envelope, the two differing; the client of the first writer then asked
\* again and was answered with the envelope of the second, calling nothing.
C21_Witness ==
    \E p, q \in Procs, a \in Attempts :
        /\ p # q
        /\ Len(cacheWrites) = 2
        /\ cacheWrites[1].caller = p /\ cacheWrites[2].caller = q
        /\ cacheWrites[1].test_attempt_id = a /\ cacheWrites[2].test_attempt_id = a
        /\ cacheWrites[1].riasec_report # cacheWrites[2].riasec_report
        /\ requests[q].pc = "responded" /\ requests[q].served = 0
        /\ requests[q].found = <<[test_attempt_id |-> a,
                                  row |-> <<[riasec_report |-> <<>>]>>]>>
        /\ requests[q].calls = <<a>> /\ requests[q].generated = <<a>>
        /\ requests[p].pc = "responded" /\ requests[p].served = 1
        /\ requests[p].calls = <<>> /\ requests[p].generated = <<>>
        /\ requests[p].results = <<[test_attempt_id |-> a,
                                    riasec_report |-> <<cacheWrites[2].riasec_report>>]>>
        /\ Len(returned[p]) = 1 /\ Len(returned[q]) = 1

(***************************************************************************)
(* Claims on the value of an answer                                        *)
(***************************************************************************)
\* the place of a letter of the scale, 0 for every other text
LetterValue(t) ==
    CASE t = <<"A">> -> 1 [] t = <<"B">> -> 2 [] t = <<"C">> -> 3
      [] t = <<"D">> -> 4 [] t = <<"E">> -> 5 [] OTHER -> 0

\* the letter the texts of AnswerTexts are once trimmed and in upper case
Letter(text) ==
    CASE text = <<" ", "e", " ">> -> <<"E">>
      [] text = <<"c">> -> <<"C">>
      [] OTHER -> text

\* the number the texts of AnswerTexts read as, <<>> when they read as none
NumberRead(text) ==
    CASE text = <<"7">> -> <<7>>
      [] text = <<"-", "3">> -> <<0 - 3>>
      [] OTHER -> <<>>

\* the value of an answer text on a question of a kind
ValueOf(kind, text) ==
    LET letter == LetterValue(Letter(text))
    IN  CASE kind = "LIKERT_SCALE" -> IF letter > 0 THEN letter ELSE 3
          [] kind = "MULTIPLE_CHOICE" ->
                IF letter > 0 THEN letter
                ELSE IF NumberRead(text) # <<>> THEN NumberRead(text)[1]
                ELSE 0
          [] OTHER -> 0

\* C25: the scoring loop never throws on an answer text, it accumulates
\* every answer whose question has a category, a call that accumulated an
\* answer returns a null error, and the value it accumulated for an answer
\* is: on a LIKERT_SCALE question the place 1..5 of the letter A..E the
\* trimmed, upper-cased text is, and 3 for every other text; on a
\* MULTIPLE_CHOICE question that place, else the number the text reads as,
\* else 0; on a question of another kind 0.
C25_AnswerValue ==
    \A p \in Procs :
        Done(p) /\ proc[p].answers # <<>>
        => /\ proc[p].raised # "TypeError"
           /\ proc[p].raised = "none"
                => /\ \A i \in DOMAIN proc[p].answers :
                         hasRiasecCategory(proc[p].answers[i].question.category)
                         => \E j \in DOMAIN proc[p].processed :
                               proc[p].processed[j].id = proc[p].answers[i].question.id
                   /\ proc[p].processed # <<>> => proc[p].result.error = NoError
           /\ \A j \in DOMAIN proc[p].processed :
                 proc[p].processed[j].value =
                     ValueOf(questions[proc[p].processed[j].id].question_type,
                             answers[proc[p].testAttemptId][proc[p].processed[j].id])

\* A call that gave the value 3 to another letter on a LIKERT_SCALE question
\* and the value 0 to a text that is no number on a MULTIPLE_CHOICE question.
C25_Witness ==
    \E p \in Procs :
        /\ Done(p) /\ proc[p].result.error = NoError
        /\ \E i, j \in DOMAIN proc[p].processed :
              /\ proc[p].answers[i].question.question_type = "LIKERT_SCALE"
              /\ proc[p].answers[i].answer_text = <<"Z">>
              /\ proc[p].processed[i].value = 3
              /\ proc[p].answers[j].question.question_type = "MULTIPLE_CHOICE"
              /\ proc[p].answers[j].answer_text = <<"x">>
              /\ proc[p].processed[j].value = 0

(***************************************************************************)
(* Claims on the dimensions without answer                                 *)
(***************************************************************************)
\* the answers the call of p accumulated under code c
Contributions(p, c) ==
    {j \in DOMAIN proc[p].processed : proc[p].processed[j].category = c}

\* the call of p ended after its scoring loop
Scored(p) == Done(p) /\ proc[p].raised = "none" /\ proc[p].answers # <<>>

\* C26: in a call that went through its scoring loop, a dimension under
\* which no answer was accumulated scores 0, and the error is null when
\* an answer was accumulated under some dimension and not null when none
\* was accumulated under any.
C26_EmptyDimensionIsZero ==
    \A p \in Procs :
        Scored(p)
        => /\ \A c \in Codes :
                 Contributions(p, c) = {} => ScoreOf(proc[p].result, c) = 0
           /\ (proc[p].result.error # NoError)
                 <=> (\A c \in Codes : Contributions(p, c) = {})
           /\ (proc[p].result.error # NoError) => AllZero(proc[p].result)

\* A call that accumulated an answer under one dimension and none under
\* the five others: a score above 0, five zeros, error null.
C26_Witness ==
    \E p \in Procs, c \in Codes :
        /\ Scored(p)
        /\ Contributions(p, c) # {}
        /\ \A d \in Codes \ {c} : Contributions(p, d) = {} /\ ScoreOf(proc[p].result, d) = 0
        /\ ScoreOf(proc[p].result, c) > 0
        /\ proc[p].result.error = NoError

(***************************************************************************)
(* Claims on calls of calculateRIASECScores in a row                       *)
(***************************************************************************)
\* the number of the call of p that is running or ended last
CallNumber(p) == MaxRuns - callsLeft[p]

\* the Question.update calls of call j of p
UpdatesOf(p, j) ==
    {i \in DOMAIN updates : updates[i].caller = p /\ updates[i].call = j}

\* Call j of p ended, its queries of the sections and the answers did not
\* throw, and every Question.update it made succeeded.
HealedIn(p, j) ==
    /\ j \in DOMAIN returned[p]
    /\ ~(returned[p][j].raised = "SequelizeError" /\ UpdatesOf(p, j) = {})
    /\ \A i \in UpdatesOf(p, j) : updates[i].ok

\* C23: a call on the attempt that follows a call in which every category
\* write succeeded finds no question to give a category to: its update
\* list is empty, it makes no Question.update and reloads no question.
C23_SecondRunWritesNothing ==
    \A p \in Procs :
        proc[p].pc \notin {"off", "idle"}
        /\ (\E j \in 1..(CallNumber(p) - 1) : HealedIn(p, j))
        => /\ proc[p].questionIdsToUpdate = <<>>
           /\ proc[p].pc \notin {"update", "reload"}
           /\ proc[p].categoriesAssigned = 0
           /\ UpdatesOf(p, CallNumber(p)) = {}

\* A first call that wrote the category of a question, and a second call
\* that ended with scores and wrote nothing.
C23_Witness ==
    \E p \in Procs :
        /\ Done(p) /\ CallNumber(p) = 2
        /\ HealedIn(p, 1) /\ UpdatesOf(p, 1) # {}
        /\ UpdatesOf(p, 2) = {}
        /\ proc[p].answers # <<>>
        /\ proc[p].result.error = NoError

(***************************************************************************)
(* Claims on calls of calculateRIASECScores side by side                   *)
(***************************************************************************)
\* What the call with locals st returns when no other call runs, its own
\* category writes failing as they did: the answers it fetched, a question
\* of its update list holding the code of its section after the reload
\* unless the write failed, the others the category they were fetched with.
aloneResult(st) ==
    LET listed == {st.questionIdsToUpdate[k].id : k \in DOMAIN st.questionIdsToUpdate}
        fetched == [i \in DOMAIN st.answers |->
                       LET question == st.answers[i].question
                       IN  [st.answers[i] EXCEPT
                              !.question.category =
                                  IF question.id \notin listed THEN question.category
                                  ELSE IF question.id \in st.failedUpdates THEN NULL
                                  ELSE <<orderToRIASEC(question.section)>>]]
    IN  scoringResult(scoreAnswers(fetched).riasecScores)

\* C22: with calls side by side on the same questions, every category
\* write to a question writes the code of its section, a question a write
\* succeeded on holds that code from then on, and every call that went
\* through its scoring loop returned what it returns when it runs alone.
C22_ConcurrentRunsAsAlone ==
    /\ \A k \in DOMAIN updates :
          /\ updates[k].category = orderToRIASEC(questions[updates[k].id].section)
          /\ updates[k].ok
               => questions[updates[k].id].category = <<updates[k].category>>
    /\ \A p \in Procs :
          Done(p) /\ proc[p].raised = "none" /\ proc[p].answers # <<>>
            => proc[p].result = aloneResult(proc[p])

\* When no category write fails, the calls side by side return what they
\* return alone.
C22_AsAloneWithoutFailedWrite ==
    (\A k \in DOMAIN updates : updates[k].ok) => C22_ConcurrentRunsAsAlone

\* call k of calculateRIASECScores of request p has returned, with a null
\* error and a score above 0
ScoresUsable(p, k) ==
    /\ k \in DOMAIN returned[p]
    /\ returned[p][k].result.error = NoError
    /\ \E c \in Codes : ScoreOf(returned[p][k].result, c) > 0

\* C30: on every route, a request calls generateRIASECReport for an
\* attempt, and stores an envelope for it, only after its call of
\* calculateRIASECScores for the attempt returned a null error and a score
\* above 0; after a call that returned an error, or six scores none above
\* 0, the request calls no generator and stores nothing for the attempt,
\* and its answer, with status 200, carries a null riasec_report for it.
C30_GeneratorOnlyOnUsableScores ==
    \A p \in Procs :
        /\ \A i \in DOMAIN requests[p].generated :
              \E k \in DOMAIN requests[p].calls :
                  requests[p].calls[k] = requests[p].generated[i] /\ ScoresUsable(p, k)
        /\ \A w \in DOMAIN cacheWrites :
              cacheWrites[w].caller = p
              => \E k \in DOMAIN requests[p].calls :
                    /\ requests[p].calls[k] = cacheWrites[w].test_attempt_id
                    /\ ScoresUsable(p, k)
                    /\ includes(requests[p].generated, requests[p].calls[k])
        /\ \A k \in DOMAIN requests[p].calls :
              k \in DOMAIN returned[p] /\ ~ScoresUsable(p, k)
              => LET a == requests[p].calls[k]
                 IN  /\ ~includes(requests[p].generated, a)
                     /\ \A w \in DOMAIN cacheWrites :
                           ~(cacheWrites[w].caller = p /\ cacheWrites[w].test_attempt_id = a)
                     /\ requests[p].pc = "responded"
                           => /\ requests[p].status = 200
                              /\ \E r \in DOMAIN requests[p].results :
                                    requests[p].results[r] =
                                        [test_attempt_id |-> a, riasec_report |-> <<>>]

\* A request whose call of calculateRIASECScores returned six zeros with a
\* null error: no call of the generator, no envelope, and an answer with a
\* null riasec_report.
C30_Witness ==
    \E p \in Procs :
        /\ requests[p].pc = "responded" /\ requests[p].status = 200
        /\ Len(requests[p].calls) = 1 /\ Len(returned[p]) = 1
        /\ returned[p][1].result = ZeroResult(NoError)
        /\ proc[p].processed # <<>>
        /\ requests[p].generated = <<>>
        /\ gen[p].pc = "off"
        /\ requests[p].results =
              <<[test_attempt_id |-> requests[p].calls[1], riasec_report |-> <<>>]>>
        /\ cacheWrites = <<>>

(***************************************************************************)
(* Claims on the categories of the questions                               *)
(***************************************************************************)
\* C20: every question of a dimension section whose category is a valid
\* code holds the code of its section, and every answer a finished call
\* accumulated was accumulated under the code of the section of its question.
C20_CategoryAgreesWithSection ==
    /\ \A q \in DOMAIN questions :
          questions[q].section \in RiasecOrders /\ hasRiasecCategory(questions[q].category)
            => currentCategory(questions[q].category)
                 = <<orderToRIASEC(questions[q].section)>>
    /\ \A p \in Procs :
          Done(p) =>
            \A j \in DOMAIN proc[p].processed :
                proc[p].processed[j].category
                  = orderToRIASEC(questions[proc[p].processed[j].id].section)

\* Before the first run of the script, whatever calls were made, the
\* categories agree with the sections and the answers are accumulated under
\* them.
C20_AgreesBeforeScript == script = IdleScript => C20_CategoryAgreesWithSection

====
